---- MODULE Spec2Model ----
(***************************************************************************)
(* The content-addressed build cache and request-coalescing dispatcher of  *)
(* the OCCI server: CadLibrary (cache store, batch precompute) and         *)
(* ModelRequestHandler (dispatch, wait-or-redirect race, detached          *)
(* monitor), with the Celery workers as an external collaborator.          *)
(***************************************************************************)
EXTENDS Integers, Sequences, FiniteSets, TLC

\* Number of worker tasks that may be enqueued in one behaviour.
MaxTasks == 2
\* Number of precompute batches that may be started in one behaviour.
MaxBatches == 1

----------------------------------------------------------------------------
(* Values and enumerations (models.py)                                     *)

ModelFormat == {"step", "gltf", "stl"}
RequestResultFormat == {"full", "model"}
COMPUTE_FILE_EXT == ".compute"
REDIRECTING_COMPUTING_STATE == "job"

\* Python values carried as parameter values.
IntV(n) == [t |-> "int", n |-> n, s |-> ""]
StrV(s) == [t |-> "str", n |-> 0, s |-> s]

\* str(value) as used by the f-string in CadScript.hash.
py_str(v) == IF v.t = "int" THEN ToString(v.n) ELSE v.s

----------------------------------------------------------------------------
(* Parameter descriptors (Param.py) and the scripts of the library         *)

ParamConfigNumber(name, start, end, step) ==
    [name |-> name, type |-> "number", iterable |-> TRUE,
     start |-> start, end |-> end, step |-> step]

ParamConfigText(name) ==
    [name |-> name, type |-> "text", iterable |-> FALSE,
     start |-> 0, end |-> 0, step |-> 1]

\* ParamConfigBoolean: iterable by the default of ParamConfigBase.
ParamConfigBoolean(name) ==
    [name |-> name, type |-> "boolean", iterable |-> TRUE]

ParamConfigOptions(name, options) ==
    [name |-> name, type |-> "options", iterable |-> TRUE, options |-> options]

\* A number parameter the script config switches off ("enabled": false) and
\* gives a default: the attributes ApiGenerator._param_to_field_def reads.
ParamConfigNumberDisabled(name, start, end, step, default) ==
    [name |-> name, type |-> "number", iterable |-> TRUE,
     start |-> start, end |-> end, step |-> step,
     default |-> default, enabled |-> FALSE]

\* cad_engine_config: None, or a dict with a "docs" list.
NoEngineConfig == [present |-> FALSE, docs |-> {}]
EngineConfig(docs) == [present |-> TRUE, docs |-> docs]

CadScript(org, name, version, engine, params, config) ==
    [org |-> org, name |-> name, version |-> version, cad_engine |-> engine,
     params |-> params, cad_engine_config |-> config]

\* tests/box: a cadquery script, one iterable number parameter.
ScriptBox ==
    CadScript("tests", "box", "1.0.0", "cadquery",
              <<ParamConfigNumber("size", 1, 2, 1)>>, NoEngineConfig)
\* tests/plate: an archiyou script that declares two docs.
ScriptPlate ==
    CadScript("tests", "plate", "1.0.0", "archiyou",
              <<ParamConfigNumber("size", 1, 1, 1)>>, EngineConfig({"spec", "plan"}))
\* tests/tag: a cadquery script with a text parameter (not iterable).
ScriptTag ==
    CadScript("tests", "tag", "1.0.0", "cadquery",
              <<ParamConfigText("label")>>, NoEngineConfig)

Scripts == {ScriptBox, ScriptPlate, ScriptTag}

\* CadScript.is_cachable
is_cachable(s) == \A i \in DOMAIN s.params : s.params[i].iterable

\* ParamConfigNumber.values: numpy.arange(start, end + step, step).tolist()
RECURSIVE arange(_, _, _)
arange(start, stop, step) ==
    IF start >= stop THEN <<>> ELSE <<start>> \o arange(start + step, stop, step)

\* The descriptor classes that define values(): ParamConfigNumber and
\* ParamConfigOptions. On the others a call of values() raises AttributeError.
has_values(p) == p.type \in {"number", "options"}

\* A Python float of whole value n: str() writes it with ".0".
FloatV(n) == [t |-> "float", n |-> n, s |-> ToString(n) \o ".0"]

\* A number descriptor whose start, end and step are held as floats
\* (start: float | int): numpy.arange over floats gives floats.
is_float(p) == "kind" \in DOMAIN p /\ p.kind = "float"

\* ParamConfigNumber.values and ParamConfigOptions.values
values(p) ==
    IF p.type = "options"
    THEN [i \in DOMAIN p.options |-> StrV(p.options[i])]
    ELSE [i \in DOMAIN arange(p.start, p.end + p.step, p.step) |->
             IF is_float(p)
             THEN FloatV(arange(p.start, p.end + p.step, p.step)[i])
             ELSE IntV(arange(p.start, p.end + p.step, p.step)[i])]

\* Texts a client sends for a text parameter.
TextInputs == {"a", "b"}

\* Values the generated endpoint input model accepts for a parameter
\* (ApiGenerator._param_to_field_def: conint(ge, le, multiple_of) / constr).
field_values(p) ==
    IF p.type = "number"
    THEN {IntV(n) : n \in {k \in p.start .. p.end : k % p.step = 0}}
    ELSE {StrV(x) : x \in TextInputs}

----------------------------------------------------------------------------
(* Fingerprint (CadScript.hash) and cache paths                            *)

RECURSIVE params_str(_)
params_str(params) ==
    IF params = <<>> THEN ""
    ELSE params[1][1] \o "=" \o py_str(params[1][2]) \o "&" \o params_str(Tail(params))

\* MD5, urlsafe base64, first 11 characters: taken as injective on the
\* inputs of the model; the digest is written as the text it digests.
_hash(inp) == "md5:" \o inp

hash(s, params) == _hash(s.name \o params_str(params))

_get_script_version_dir(s) == s.org \o "/" \o s.name \o "/" \o s.version

_get_script_version_cache_dir(s) ==
    _get_script_version_dir(s) \o "/" \o s.name \o "-cache"

\* r is the ModelRequest of the CadScriptRequest / CadScriptResult.
_get_script_version_cached_model_dir(s, r) ==
    _get_script_version_cache_dir(s) \o "/" \o hash(s, r.params)

----------------------------------------------------------------------------
(* Requests and results (CadScript.py, models.py)                          *)

\* request.settings["docs"]: absent, True, or a list of doc names.
DocsUnset == [kind |-> "unset", list |-> {}]
DocsTrue == [kind |-> "true", list |-> {}]
DocsList(l) == [kind |-> "list", list |-> l]

\* ModelRequest; batch_id 0 stands for None, output "None" for no output.
ModelRequest(params, format, output, docs, batch_id) ==
    [params |-> params, format |-> format, output |-> output,
     settings |-> [docs |-> docs], batch_id |-> batch_id]

\* ModelResult; models is a dict format -> data, kept as a set of <<key, data>>;
\* files is the key set of the dict file name -> base64 data, a name is <<base, ext>>.
ModelResult(success, models, files, errors) ==
    [success |-> success, models |-> models, files |-> files, errors |-> errors]

\* CadScriptResult of the script under service: its request and its results.
CadScriptResult(request, results) == [request |-> request, results |-> results]

\* models.keys() of a models dict kept as a set of <<format, data>>.
models_keys(models) == {p[1] : p \in models}

\* dict.get(k): the set holding the value, empty for None.
models_get(models, k) == {p[2] : p \in {q \in models : q[1] = k}}
\* Python truthiness of models.get(k): present and not the empty string.
truthy(got) == got # {} /\ got # {""}

\* Doc settings a client sends with a request.
DocsInputs(s) ==
    IF s.cad_engine = "archiyou" THEN {DocsUnset, DocsList({"spec"})} ELSE {DocsUnset}

\* The flat parameter fields of a validated ModelRequestInput.
FieldMaps(s) ==
    {f \in [{s.params[i].name : i \in DOMAIN s.params} ->
               UNION {field_values(s.params[i]) : i \in DOMAIN s.params}] :
        \A i \in DOMAIN s.params : f[s.params[i].name] \in field_values(s.params[i])}

\* Every ModelRequestInput a versioned model endpoint accepts for these inputs.
ModelRequestInputs(s) ==
    {[fields |-> f, format |-> fm, output |-> o, settings |-> [docs |-> d]] :
        f \in FieldMaps(s), fm \in ModelFormat, o \in RequestResultFormat, d \in DocsInputs(s)}

\* The requests clients send in the behaviours explored: a format the workers
\* deliver and one they do not, both outputs; a request for docs asks for the
\* full bundle.
ClientRequests(s) ==
    {req \in ModelRequestInputs(s) :
        /\ <<req.format, req.output>> \in {<<"step", "full">>, <<"gltf", "model">>}
        /\ req.settings.docs # DocsUnset => req.format = "step"}

\* ModelRequestHandler._req_to_script_request: the request of the CadScriptRequest.
_req_to_script_request(s, req) ==
    [params |-> [i \in DOMAIN s.params |-> <<s.params[i].name, req.fields[s.params[i].name]>>],
     format |-> req.format, output |-> req.output, settings |-> req.settings,
     batch_id |-> 0]

\* Result bundles a worker may return for a task.
WorkerModels ==
    { {},
      {<<"step", "STEP">>, <<"stl", "b64(STL)">>},
      {<<"step", "">>, <<"obj", "OBJ">>} }
WorkerFiles(s) ==
    IF s.cad_engine = "archiyou"
    THEN { {}, {<<"spec", ".pdf">>}, {<<"spec", ".pdf">>, <<"plan", ".pdf">>} }
    ELSE { {} }
WorkerResults(s) ==
    {b \in {ModelResult(ok, m, f, IF ok THEN <<>> ELSE <<"build failed">>) :
               ok \in BOOLEAN, m \in WorkerModels, f \in WorkerFiles(s)} :
        \* files come with the usual models; a failed build has no odd models
        /\ b.files # {} => b.models = {<<"step", "STEP">>, <<"stl", "b64(STL)">>}
        /\ ~b.success => b.models # {<<"step", "">>, <<"obj", "OBJ">>}}

----------------------------------------------------------------------------
(* Cache store (CadLibrary): one directory per fingerprint                 *)

RESULT_JSON == <<"result", ".json">>
\* task_id is the text of the Celery task id.
ComputeFile(task_id) == <<task_id, COMPUTE_FILE_EXT>>
IsComputeFile(f) == f[2] = COMPUTE_FILE_EXT

\* A file name is <<stem, suffix>>. A directory: the names of its files and
\* the content of result.json (a set holding the CadScriptResult written,
\* empty when there is no result.json).
EmptyDir == [files |-> {}, json |-> {}]

\* A narrowing that leaves results.models as cached.
_apply_single_model_format_keep_all(res) == res

\* CadLibrary._apply_single_model_format
_apply_single_model_format(res) ==
    LET format == res.request.format
        needed_model_format == models_get(res.results.models, format)
    IN  [res EXCEPT !.results.models =
            IF truthy(needed_model_format)
            THEN {<<format, v>> : v \in needed_model_format}
            ELSE {}]

\* CadLibrary.get_cached_script: the set holding the cached result, empty for None.
get_cached_script(disk, s, r) ==
    LET dir == disk[_get_script_version_cached_model_dir(s, r)]
    IN  IF RESULT_JSON \notin dir.files THEN {}
        ELSE {_apply_single_model_format([c EXCEPT !.request = r]) : c \in dir.json}

\* is_cached, 'pre_check' of the archiyou "docs" entry.
docs_pre_check(s, docs) ==
    IF docs.kind = "true" THEN s.cad_engine_config.docs
    ELSE IF docs.kind = "list" THEN {d \in docs.list : d \in s.cad_engine_config.docs}
    ELSE {}

\* is_cached, 'check_value' of the archiyou "docs" entry.
docs_check_value(settings, results_files) ==
    IF settings # {}
    THEN \A item \in results_files : item \in {<<v, ".pdf">> : v \in settings}
    ELSE TRUE

\* CadLibrary.is_cached
is_cached(disk, s, r) ==
    LET cad_script_result == get_cached_script(disk, s, r)
    IN  IF cad_script_result = {} THEN FALSE
        ELSE IF s.cad_engine = "archiyou"
             THEN \A c \in cad_script_result :
                     docs_check_value(docs_pre_check(s, r.settings.docs), c.results.files)
             ELSE TRUE

\* CadLibrary._clear_dir
_clear_dir(disk, d) == [disk EXCEPT ![d] = EmptyDir]

\* CadLibrary.remove_compute_files
remove_compute_files(disk, d) ==
    [disk EXCEPT ![d].files = {f \in @ : ~IsComputeFile(f)}]

\* set_script_model_is_computing without the clearing of the directory
\* before the marker file is written.
set_script_model_is_computing_keeping_dir(disk, s, r, task_id) ==
    LET d == _get_script_version_cached_model_dir(s, r)
    IN  [disk EXCEPT ![d].files = @ \cup {ComputeFile(task_id)}]

\* set_script_model_is_computing without the write of the marker file.
set_script_model_is_computing_no_marker(disk, s, r, task_id) ==
    _clear_dir(disk, _get_script_version_cached_model_dir(s, r))

\* CadLibrary.set_script_model_is_computing
set_script_model_is_computing(disk, s, r, task_id) ==
    LET d == _get_script_version_cached_model_dir(s, r)
    IN  [_clear_dir(disk, d) EXCEPT ![d].files = {ComputeFile(task_id)}]

\* CadLibrary.check_script_model_computing_job: the task ids it may return,
\* one per file that os.listdir may list first; "" stands for None.
check_script_model_computing_job(disk, s, r) ==
    LET files == disk[_get_script_version_cached_model_dir(s, r)].files
    IN  IF files = {} THEN {""}
        ELSE {IF IsComputeFile(first_file) THEN first_file[1] ELSE "" : first_file \in files}

\* The model files checkin_script_result_in_cache writes: result.<format> for
\* each of step, stl and gltf whose model is truthy.
ModelFiles(models) ==
    {<<"result", "." \o f>> : f \in {g \in {"step", "stl", "gltf"} : truthy(models_get(models, g))}}

\* The files checkin_script_result_in_cache writes for a result.
checkin_files(s, res) ==
    IF is_cachable(s)
    THEN (IF res.results.models # {}
          THEN {RESULT_JSON} \cup ModelFiles(res.results.models)
          ELSE {})
         \cup res.results.files
    ELSE {}

\* A check-in that narrows the result to the requested format before it
\* writes result.json.
checkin_script_result_in_cache_single_format(disk, s, res) ==
    LET d == _get_script_version_cached_model_dir(s, res.request)
        written == [disk EXCEPT
                      ![d].files = @ \cup checkin_files(s, res),
                      ![d].json = IF is_cachable(s) /\ res.results.models # {}
                                  THEN {_apply_single_model_format(res)} ELSE @]
    IN  remove_compute_files(written, d)

\* A check-in that cleans the markers only inside the cachable branch.
checkin_script_result_in_cache_cachable_only(disk, s, res) ==
    LET d == _get_script_version_cached_model_dir(s, res.request)
    IN  IF is_cachable(s)
        THEN remove_compute_files(
                 [disk EXCEPT ![d].files = @ \cup checkin_files(s, res),
                              ![d].json = IF res.results.models # {} THEN {res} ELSE @], d)
        ELSE disk

\* CadLibrary.checkin_script_result_in_cache, the cache part.
checkin_script_result_in_cache(disk, s, res) ==
    LET d == _get_script_version_cached_model_dir(s, res.request)
        written == [disk EXCEPT
                      ![d].files = @ \cup checkin_files(s, res),
                      ![d].json = IF is_cachable(s) /\ res.results.models # {}
                                  THEN {res} ELSE @]
    IN  remove_compute_files(written, d)

----------------------------------------------------------------------------
(* Responses of the HTTP layer                                             *)

NoResponse == [kind |-> "none", code |-> 0, body |-> {}, errors |-> <<>>, url |-> ""]
JsonResponse(res) == [NoResponse EXCEPT !.kind = "json", !.code = 200, !.body = {res}]
RedirectResponse(url) == [NoResponse EXCEPT !.kind = "redirect", !.code = 307, !.url = url]
HTTPException(code, errors) == [NoResponse EXCEPT !.kind = "error", !.code = code, !.errors = errors]

\* CadScriptResult.get_model_file_response: the file of the one requested format.
get_model_file_response(res, format) ==
    [NoResponse EXCEPT !.kind = "file", !.code = 200, !.url = "result." \o format]

\* ModelRequestHandler.handle_requested_script_result: what the caller gets
\* (the check-in of a new result is part of the actions below).
handle_requested_script_result(req, res) ==
    IF res.results.success
    THEN IF req.output = "full"
         THEN JsonResponse(_apply_single_model_format(res))
         ELSE get_model_file_response(res, req.format)
    ELSE HTTPException(404, res.results.errors)

\* A URL path is the sequence of its segments; url_of writes it out.
RECURSIVE url_of(_)
url_of(path) == IF path = <<>> THEN "" ELSE "/" \o path[1] \o url_of(Tail(path))

\* The segments of the URL go_to_computing_job_url redirects to.
computing_job_url_path(s, r, task_id) ==
    <<s.org, s.name, s.version, hash(s, r.params), REDIRECTING_COMPUTING_STATE, task_id>>

\* ModelRequestHandler.go_to_computing_job_url, the redirect.
go_to_computing_job_url(s, r, task_id) ==
    RedirectResponse(url_of(computing_job_url_path(s, r, task_id)))

----------------------------------------------------------------------------
(* Batch precompute (CadScript enumeration, CadLibrary batch stats)        *)

\* itertools.product of a sequence of lists: the last list varies fastest.
RECURSIVE product(_)
product(lists) ==
    IF lists = <<>> THEN << <<>> >>
    ELSE LET rest == product(Tail(lists))
             first == lists[1]
         IN  [k \in 1 .. Len(first) * Len(rest) |->
                 <<first[((k - 1) \div Len(rest)) + 1]>> \o rest[((k - 1) % Len(rest)) + 1]]

\* CadScript.iterate_possible_model_params_dicts: the parameter dicts in order.
iterate_possible_model_params_dicts(s) ==
    LET combinations == product([i \in DOMAIN s.params |-> values(s.params[i])])
    IN  [k \in DOMAIN combinations |->
            [i \in DOMAIN s.params |-> <<s.params[i].name, combinations[k][i]>>]]

RECURSIVE num_combinations(_, _)
num_combinations(s, i) ==
    IF i > Len(s.params) THEN 1 ELSE Len(values(s.params[i])) * num_combinations(s, i + 1)

\* CadScript.get_num_variants
get_num_variants(s) == num_combinations(s, 1)

\* CadLibrary._make_cache_compute_script_request, with the engine config
\* merged into request.settings (_submit_and_handle_compute_script_task).
_make_cache_compute_script_request(s, param_dict, batch_id) ==
    ModelRequest(param_dict, "step", "None",
                 IF s.cad_engine_config.present
                 THEN DocsList(s.cad_engine_config.docs) ELSE DocsUnset,
                 batch_id)

\* ComputeBatchStats
ComputeBatchStats(n) == [tasks |-> n, done |-> 0]

----------------------------------------------------------------------------
(* The catalog and the HTTP routes (CadLibrary.order_scripts, ApiGenerator, *)
(* main.py)                                                                 *)

\* An older version of tests/tag that the library holds beside the scripts
\* whose endpoints the behaviours exercise.
ScriptTagOld ==
    CadScript("tests", "tag", "0.9.0", "cadquery",
              <<ParamConfigText("label")>>, NoEngineConfig)

\* CadLibrary.scripts
LibraryScripts == Scripts \cup {ScriptTagOld}

\* CadScript.get_namespace
get_namespace(s) == s.org \o "/" \o s.name

\* semver Version.parse on the versions of the library: major, minor, patch.
Version_parse(v) ==
    CASE v = "0.9.0" -> <<0, 9, 0>>
      [] v = "1.0.0" -> <<1, 0, 0>>
      [] v = "2.0.0" -> <<2, 0, 0>>
      [] v = "10.0.0" -> <<10, 0, 0>>

\* Version.__lt__
Version_lt(a, b) ==
    \/ a[1] < b[1]
    \/ a[1] = b[1] /\ a[2] < b[2]
    \/ a[1] = b[1] /\ a[2] = b[2] /\ a[3] < b[3]

\* CadLibrary.order_scripts: for a script of namespace ns, the scripts that
\* have its name (filter on s.name) are sorted by semver and the last one
\* becomes latest_scripts[ns].
latest_scripts(ns) ==
    CHOOSE s \in LibraryScripts :
        /\ \E x \in LibraryScripts : get_namespace(x) = ns /\ x.name = s.name
        /\ \A x \in LibraryScripts :
              x.name = s.name => ~Version_lt(Version_parse(s.version), Version_parse(x.version))

\* A route: the segments of its path (a literal or a path parameter), the
\* endpoint function, the script it was generated for and the value the
\* endpoint function assigns to req.script_version ("" stands for None).
Lit(x) == <<"lit", x>>
Var(x) == <<"var", x>>
NoVersion == ""
NoScript == [name |-> ""]
Route(path, endpoint, s, v) == [path |-> path, endpoint |-> endpoint, script |-> s, script_version |-> v]

\* ApiGenerator._generate_version_endpoint
_generate_version_endpoint(s) ==
    LET base == <<Lit(s.org), Lit(s.name), Lit(s.version)>>
    IN  { Route(base, "get_model_get_version", s, s.version),
          Route(base \o <<Lit("script")>>, "get_script", s, s.version),
          Route(base \o <<Lit("params")>>, "get_model_get_params", s, s.version),
          Route(base \o <<Lit("presets")>>, "get_model_get_presets", s, s.version),
          Route(base \o <<Lit("files")>>, "get_model_files", s, s.version),
          Route(base \o <<Lit("files"), Var("filename")>>, "get_model_file", s, s.version) }

\* ApiGenerator._generate_default_version_endpoint
_generate_default_version_endpoint(s) ==
    { Route(<<Lit(s.org), Lit(s.name)>>, "get_model_get", s, NoVersion),
      Route(<<Lit(s.org), Lit(s.name), Lit("versions")>>, "get_model_get_versions", s, NoVersion) }

\* The routes of the application: ApiGenerator.generate_endpoints, then the
\* routes main.py adds.
Routes ==
    UNION {_generate_version_endpoint(s) : s \in LibraryScripts}
    \cup UNION {_generate_default_version_endpoint(latest_scripts(get_namespace(s))) :
                   s \in LibraryScripts}
    \cup { Route(<<Var("script_org"), Var("script_name"), Var("script_instance_hash"),
                   Lit("job"), Var("celery_task_id")>>,
                 "get_model_compute_task", NoScript, NoVersion),
           Route(<<Lit("search")>>, "search", NoScript, NoVersion) }

\* Starlette's path match: as many segments as the route has, every literal
\* equal; a path parameter takes any one segment.
route_matches(rt, path) ==
    /\ Len(rt.path) = Len(path)
    /\ \A i \in DOMAIN path : rt.path[i][1] = "lit" => rt.path[i][2] = path[i]

\* The routes that serve a path; none: the router answers 404 Not Found.
route(path) == {rt \in Routes : route_matches(rt, path)}

NotFound == HTTPException(404, <<"Not Found">>)
InternalServerError == HTTPException(500, <<"Internal Server Error">>)
HTTP_202_ACCEPTED(job) == [NoResponse EXCEPT !.kind = "json", !.code = 202, !.body = {job}]

----------------------------------------------------------------------------
(* The library on disk and the catalog indexes (CadLibrary load, order,    *)
(* add; CadLibrarySearch.build_index)                                       *)

\* None, and a key that a sidecar JSON does not hold.
NoneV == "None"
Absent == "absent"

\* str.lower on the directory names of the library trees explored.
lower(x) == CASE x = "Acme" -> "acme" [] OTHER -> x

\* Version.parse(v, optional_minor_and_patch=True) raises ValueError.
Version_invalid(v) == v \notin {"0.9.0", "1.0.0", "2.0.0", "10.0.0"}

\* A CadScript as the catalog holds it: identity, engine, code, parameters
\* and presets (the fields without a role in the catalog keep their defaults).
CadScriptRecord(id, org, name, version, url, cad_engine, code, params, param_presets) ==
    [id |-> id, org |-> org, name |-> name, namespace |-> org \o "/" \o name,
     version |-> version, url |-> url, cad_engine |-> cad_engine, code |-> code,
     params |-> params, param_presets |-> param_presets]

\* A sidecar as written: the script as JSON with the null keys and 'code'
\* left out.
sidecar_json(s) ==
    [k \in DOMAIN s |->
        IF k = "code" THEN Absent
        ELSE IF k \in {"id", "url"} /\ s[k] = NoneV THEN Absent
        ELSE s[k]]

\* CadScript(**config): a key the config does not hold takes the default of
\* the field; org and name are lower-cased and namespace is generated.
CadScript_parse(config) ==
    LET field(k, default) == IF config[k] = Absent THEN default ELSE config[k]
    IN  CadScriptRecord(field("id", NoneV), lower(config.org), lower(config.name),
                        field("version", "1.0"), field("url", NoneV),
                        field("cad_engine", "cadquery"), field("code", NoneV),
                        config.params, config.param_presets)

\* A version directory of the library tree: its path <<org, name, version>>,
\* its script file (extension and code) and its *.json files in the order
\* iglob lists them; a sidecar holds a JSON object or text json.load rejects.
Sidecar(config) == [malformed |-> FALSE, config |-> config]
Malformed == [malformed |-> TRUE]
VersionDir(path, ext, code, sidecars) ==
    [path |-> path, ext |-> ext, code |-> code, sidecars |-> sidecars]

\* What a call that may raise or skip gives besides a record.
Raise == [raised |-> TRUE]
Skipped == [raised |-> FALSE, skipped |-> TRUE]
Loaded(s) == [raised |-> FALSE, skipped |-> FALSE, script |-> s]

\* CadLibrary._get_code_cad_language
_get_code_cad_language(ext) ==
    CASE ext = "py" -> "cadquery" [] ext = "js" -> "archiyou" [] OTHER -> NoneV

\* CadLibrary._parse_config. With several sidecars the warning calls join on
\* a list (AttributeError); without a sidecar, or with one json.load cannot
\* parse, it builds CadScript(name=script_name), which lacks the required
\* org (ValidationError).
\* A sidecar without org or name gets them from os.path.split of the version
\* directory: element -2 is the path of the parent directory, the last
\* element is the name of the version directory.
_parse_config(dir) ==
    IF Len(dir.sidecars) > 1 THEN Raise
    ELSE IF Len(dir.sidecars) = 0 THEN Raise
    ELSE IF dir.sidecars[1].malformed THEN Raise
    ELSE LET script_config == dir.sidecars[1].config
             script_dir_org == "/scriptlibrary/" \o dir.path[1] \o "/" \o dir.path[2]
             script_dir_name == dir.path[3]
         IN  Loaded(CadScript_parse(
                 [script_config EXCEPT
                     !.org = IF @ = Absent THEN script_dir_org ELSE @,
                     !.name = IF @ = Absent THEN script_dir_name ELSE @]))

\* CadLibrary._script_path_to_script
_script_path_to_script(dir) ==
    IF Version_invalid(dir.path[3]) THEN Skipped
    ELSE LET base_script == _parse_config(dir)
         IN  IF base_script.raised THEN Raise
             ELSE Loaded(
                    CadScriptRecord(lower(dir.path[1]) \o "/" \o lower(dir.path[2])
                                        \o "/" \o dir.path[3],
                                    lower(dir.path[1]), lower(dir.path[2]), dir.path[3],
                                    NoneV, _get_code_cad_language(dir.ext), dir.code,
                                    base_script.script.params,
                                    base_script.script.param_presets))

\* CadLibrary._load_scripts_dir over the version directories in the order
\* glob gives them: the scripts appended so far, and whether a directory
\* raised (the directories after it are not read).
RECURSIVE _load_scripts_dir(_, _)
_load_scripts_dir(dirs, scripts) ==
    IF dirs = <<>> THEN [raised |-> FALSE, scripts |-> scripts]
    ELSE LET library_script == _script_path_to_script(dirs[1])
         IN  IF library_script.raised THEN [raised |-> TRUE, scripts |-> scripts]
             ELSE _load_scripts_dir(Tail(dirs),
                      IF library_script.skipped THEN scripts
                      ELSE Append(scripts, library_script.script))

\* sorted(scripts, key=Version.parse(version)): stable insertion by semver.
RECURSIVE sorted_by_version(_)
sorted_by_version(scripts) ==
    IF scripts = <<>> THEN <<>>
    ELSE LET rest == sorted_by_version(SubSeq(scripts, 1, Len(scripts) - 1))
             x == scripts[Len(scripts)]
             before == SelectSeq(rest, LAMBDA y :
                           ~Version_lt(Version_parse(x.version), Version_parse(y.version)))
             after == SelectSeq(rest, LAMBDA y :
                           Version_lt(Version_parse(x.version), Version_parse(y.version)))
         IN  before \o <<x>> \o after

\* The scripts an index entry is computed from: filter on s.name.
scripts_by_namespace(scripts, script) == SelectSeq(scripts, LAMBDA s : s.name = script.name)

Namespaces(scripts) == {scripts[i].namespace : i \in DOMAIN scripts}

\* CadLibrary.order_scripts: latest_scripts and script_versions by namespace.
\* (latest_scripts.get(script.name) is looked up by name while the keys are
\* namespaces, so the entry of a namespace is computed for each of its
\* scripts, every time with the same outcome.)
order_scripts(scripts) ==
    LET of(ns) == CHOOSE i \in DOMAIN scripts : scripts[i].namespace = ns
        sorted(ns) == sorted_by_version(scripts_by_namespace(scripts, scripts[of(ns)]))
    IN  [latest_scripts |->
            [ns \in Namespaces(scripts) |-> sorted(ns)[Len(sorted(ns))]],
         script_versions |->
            [ns \in Namespaces(scripts) |->
                [i \in DOMAIN sorted(ns) |-> sorted(ns)[i].version]]]

\* CadLibrarySearch.build_index: one document per latest script.
build_index(latest) == {latest[ns] : ns \in DOMAIN latest}

\* The library: the version directories on disk, CadLibrary.scripts,
\* latest_scripts, script_versions, the documents of the search index, the
\* script versions with registered endpoints, whether set_api_generator was
\* called and whether the library is constructed.
Library(tree, api_generator) ==
    [tree |-> tree, scripts |-> <<>>, latest_scripts |-> <<>>, script_versions |-> <<>>,
     index |-> {}, endpoints |-> {}, api_generator |-> api_generator, constructed |-> FALSE]

\* The library of the behaviours whose catalog is LibraryScripts throughout:
\* main.py constructs it and never calls set_api_generator.
NoLibrary == Library({}, FALSE)

\* CadLibrary.script_exists: os.path.isdir of {org}/{name}/{version}.
script_exists(lib, s) == \E dir \in lib.tree : dir.path = <<s.org, s.name, s.version>>

\* CadLibrary.write_script: the code file and the sidecar.
write_script(tree, s) ==
    {dir \in tree : dir.path # <<s.org, s.name, s.version>>}
    \cup {VersionDir(<<s.org, s.name, s.version>>,
                     CASE s.cad_engine = "cadquery" -> "py"
                       [] s.cad_engine = "archiyou" -> "js"
                       [] OTHER -> "py",
                     s.code, <<Sidecar(sidecar_json(s))>>)}

\* CadLibrary._add_script_internal
_add_script_internal(lib, s) ==
    LET scripts == IF \E i \in DOMAIN lib.scripts :
                         /\ lib.scripts[i].org = s.org
                         /\ lib.scripts[i].name = s.name
                         /\ lib.scripts[i].version = s.version
                   THEN lib.scripts ELSE Append(lib.scripts, s)
        sorted == sorted_by_version(scripts_by_namespace(scripts, s))
        with(f, v) == [ns \in DOMAIN f \cup {s.namespace} |-> IF ns = s.namespace THEN v ELSE f[ns]]
    IN  [lib EXCEPT !.scripts = scripts,
                    !.latest_scripts = with(@, sorted[Len(sorted)]),
                    !.script_versions = with(@, [i \in DOMAIN sorted |-> sorted[i].version])]

\* An add_script that writes and indexes the script before it looks whether
\* the script exists.
add_script_writing_first(lib, s) ==
    [ok |-> ~script_exists(lib, s),
     library |-> _add_script_internal([lib EXCEPT !.tree = write_script(@, s)], s)]

\* CadLibrary.add_script (overwrite=False): what it returns and the library
\* afterwards.
add_script(lib, s) ==
    IF script_exists(lib, s)
    THEN [ok |-> FALSE, library |-> lib]
    ELSE [ok |-> TRUE,
          library |-> _add_script_internal([lib EXCEPT !.tree = write_script(@, s)], s)]

\* CadLibrary.get_script_request: the set holding the script, empty for None.
get_script_request(lib, org, name, version) ==
    IF version = NoneV
    THEN IF org \o "/" \o name \in DOMAIN lib.latest_scripts
         THEN {lib.latest_scripts[org \o "/" \o name]} ELSE {}
    ELSE LET l == SelectSeq(lib.scripts, LAMBDA s :
                      s.org = org /\ s.name = name /\ s.version = version)
         IN  IF l # <<>> THEN {l[1]} ELSE {}

\* CadLibrary.get_script_versions: script_versions.get(namespace), <<>> for None.
get_script_versions(lib, ns) ==
    IF ns \in DOMAIN lib.script_versions THEN lib.script_versions[ns] ELSE <<>>

\* The orders in which glob may give the version directories: the *.py
\* pattern is walked before the *.js pattern.
GlobOrders(tree) ==
    {order \in [1 .. Cardinality(tree) -> tree] :
        /\ \A i, j \in DOMAIN order : i # j => order[i] # order[j]
        /\ \A i, j \in DOMAIN order : i < j => ~(order[i].ext = "js" /\ order[j].ext = "py")}

\* CadLibrary.reload with the directories in the given order: the scripts are
\* read again and ordered; a directory that raises leaves the scripts read
\* before it in CadLibrary.scripts, and the indexes as they were.
reload(lib, order) ==
    LET loaded == _load_scripts_dir(order, <<>>)
        ordered == order_scripts(loaded.scripts)
    IN  IF loaded.raised THEN [lib EXCEPT !.scripts = loaded.scripts]
        ELSE [lib EXCEPT !.scripts = loaded.scripts,
                         !.latest_scripts = ordered.latest_scripts,
                         !.script_versions = ordered.script_versions]

\* CadLibrary.set_script_version_endpoint and, when it gave True, reload:
\* handle_end_of_batch for batch_on_end_action 'publish'.
handle_end_of_batch(lib, s, order) ==
    IF ~lib.api_generator THEN lib
    ELSE reload([lib EXCEPT !.endpoints = @ \cup {<<s.org, s.name, s.version>>}], order)

\* Admin.PublishJob: the script, the status, whether the batch coroutine
\* created for it has started, and the batch whose statistics carry the id
\* of the job (0: _compute_batch_stats holds none).
PublishJob(s, status) == [script |-> s, status |-> status, started |-> FALSE, batch |-> 0]

\* on_done of Admin._handle_publish_request, called with the batch id.
on_done(jobs, b) ==
    [j \in DOMAIN jobs |->
        IF jobs[j].batch = b THEN [jobs[j] EXCEPT !.status = "success"] ELSE jobs[j]]

----------------------------------------------------------------------------
(* State                                                                   *)

VARIABLES
    script,     \* the script version the endpoints of this behaviour serve
    disk,       \* cache directory path -> [files, json]
    tasks,      \* Celery tasks by id 1..Len(tasks): request, state, result, watcher
    batches,    \* precompute batches by id 1..Len(batches)
    last,       \* the operation of the last step and the response it gave
    available_scriptengine_workers,
                \* the engines check_celery found a worker pool for at startup
    script_requests,
                \* the CadScriptRequest objects whose hash() is under study
    enumeration,
                \* the calls of values(), get_num_variants() and the enumerator
                \* made on the script, with what they returned
    library,    \* the library tree on disk and the catalog indexes in memory
    publish_jobs
                \* Admin.publish_jobs: the publish jobs in the order accepted

vars == <<script, disk, tasks, batches, last, available_scriptengine_workers,
          script_requests, enumeration, library, publish_jobs>>

\* Every fingerprint directory of every script of the library.
ScriptCacheDirs(s) ==
    {_get_script_version_cached_model_dir(s, _req_to_script_request(s, req)) :
        req \in ModelRequestInputs(s)}
CacheDirs == UNION {ScriptCacheDirs(s) : s \in Scripts}

\* A task: the request sent to the worker, the state in the result backend,
\* the result (a set, empty until SUCCESS) and who waits for it in this
\* process: "race" (handle, racing the timer), "monitor" (the detached
\* monitor), "batch" (the batch coroutine) or "none"; commits counts the calls
\* of checkin_script_result_in_cache made with the result of the task.
Task(r, watch) ==
    [request |-> r, status |-> "SENT", result |-> {}, watch |-> watch, commits |-> 0]

TaskId(t) == ToString(t)
Ready(t) == tasks[t].status \in {"SUCCESS", "FAILURE"}
Alive(t) == tasks[t].status = "SENT"
\* The CadScriptResult a finished task returned: the worker echoes the request.
ResultOf(t) == CadScriptResult(tasks[t].request, CHOOSE b \in tasks[t].result : TRUE)
DirOf(t) == _get_script_version_cached_model_dir(script, tasks[t].request)

\* A check-in that counts a result without batch_id in every batch.
checkin_batch_stats_of_any_result(bs, res) ==
    IF res.request.batch_id # 0
    THEN [bs EXCEPT ![res.request.batch_id].stats.done = @ + 1]
    ELSE [b \in DOMAIN bs |-> [bs[b] EXCEPT !.stats.done = @ + 1]]

\* checkin_script_result_in_cache, "manage batch stats": a result whose
\* request carries a batch_id counts as one more task done in that batch.
checkin_batch_stats(bs, res) ==
    IF res.request.batch_id # 0
    THEN [bs EXCEPT ![res.request.batch_id].stats.done = @ + 1]
    ELSE bs

\* What the last step did: the operation, the task it concerned (0: none) and
\* the response the caller got, without the body (the body of a JSON response
\* is handle_requested_script_result(...).body of the state it was given in).
Step(op, t, response) == [op |-> op, task |-> t, response |-> [response EXCEPT !.body = {}]]

\* What check_celery may leave in available_scriptengine_workers when the
\* server starts: both engines enabled in .env, or the engine of script s
\* switched off.
WorkerPools(s) == {{"cadquery", "archiyou"}, {"cadquery", "archiyou"} \ {s.cad_engine}}

\* ModelRequestHandler.script_engine_has_workers
script_engine_has_workers(s, workers) == s.cad_engine \in workers

Init ==
    /\ script \in Scripts
    /\ available_scriptengine_workers \in WorkerPools(script)
    /\ disk = [d \in CacheDirs |-> EmptyDir]
    /\ tasks = <<>>
    /\ batches = <<>>
    /\ last = Step("init", 0, NoResponse)
    /\ script_requests = <<>>
    /\ enumeration = <<>>
    /\ library = NoLibrary
    /\ publish_jobs = <<>>

----------------------------------------------------------------------------
(* ModelRequestHandler.handle                                              *)

\* handle(req) without the check of the engine's worker pool before the enqueue.
Handle_without_worker_check(req) ==
    LET r == _req_to_script_request(script, req)
    IN  IF is_cached(disk, script, r)
        THEN /\ last' = Step("cache_hit", 0,
                     handle_requested_script_result(r,
                         CHOOSE c \in get_cached_script(disk, script, r) : TRUE))
             /\ UNCHANGED <<script, available_scriptengine_workers, script_requests, enumeration, library, publish_jobs, disk, tasks, batches>>
        ELSE \E job \in check_script_model_computing_job(disk, script, r) :
                IF job # ""
                THEN /\ last' = Step("in_flight", 0, go_to_computing_job_url(script, r, job))
                     /\ UNCHANGED <<script, available_scriptengine_workers, script_requests, enumeration, library, publish_jobs, disk, tasks, batches>>
                ELSE /\ Len(tasks) < MaxTasks
                     /\ tasks' = Append(tasks, Task(r, "race"))
                     /\ last' = Step("enqueue", Len(tasks) + 1, NoResponse)
                     /\ UNCHANGED <<script, available_scriptengine_workers, script_requests, enumeration, library, publish_jobs, disk, batches>>

\* handle(req) that submits the request to the workers once more before it
\* redirects to the computing job it found.
Handle_submitting_when_in_flight(req) ==
    LET r == _req_to_script_request(script, req)
    IN  IF is_cached(disk, script, r)
        THEN /\ last' = Step("cache_hit", 0,
                     handle_requested_script_result(r,
                         CHOOSE c \in get_cached_script(disk, script, r) : TRUE))
             /\ UNCHANGED <<script, available_scriptengine_workers, script_requests, enumeration, library, publish_jobs, disk, tasks, batches>>
        ELSE \E job \in check_script_model_computing_job(disk, script, r) :
                IF job # ""
                THEN /\ Len(tasks) < MaxTasks
                     /\ tasks' = Append(tasks, Task(r, "none"))
                     /\ last' = Step("in_flight", 0, go_to_computing_job_url(script, r, job))
                     /\ UNCHANGED <<script, available_scriptengine_workers, script_requests, enumeration, library, publish_jobs, disk, batches>>
                ELSE IF ~script_engine_has_workers(script, available_scriptengine_workers)
                THEN /\ last' = Step("no_workers", 0,
                             HTTPException(500, <<"No workers available for cad script engine">>))
                     /\ UNCHANGED <<script, available_scriptengine_workers, script_requests, enumeration, library, publish_jobs, disk, tasks, batches>>
                ELSE /\ Len(tasks) < MaxTasks
                     /\ tasks' = Append(tasks, Task(r, "race"))
                     /\ last' = Step("enqueue", Len(tasks) + 1, NoResponse)
                     /\ UNCHANGED <<script, available_scriptengine_workers, script_requests, enumeration, library, publish_jobs, disk, batches>>

\* handle(req) for a versioned model endpoint, up to its return or, on a
\* miss, up to the start of the race between the timer and the result.
Handle(req) ==
    LET r == _req_to_script_request(script, req)
    IN  IF is_cached(disk, script, r)
        THEN /\ last' = Step("cache_hit", 0,
                     handle_requested_script_result(r,
                         CHOOSE c \in get_cached_script(disk, script, r) : TRUE))
             /\ UNCHANGED <<script, available_scriptengine_workers, script_requests, enumeration, library, publish_jobs, disk, tasks, batches>>
        ELSE \E job \in check_script_model_computing_job(disk, script, r) :
                IF job # ""
                THEN /\ last' = Step("in_flight", 0, go_to_computing_job_url(script, r, job))
                     /\ UNCHANGED <<script, available_scriptengine_workers, script_requests, enumeration, library, publish_jobs, disk, tasks, batches>>
                ELSE IF ~script_engine_has_workers(script, available_scriptengine_workers)
                THEN /\ last' = Step("no_workers", 0,
                             HTTPException(500, <<"No workers available for cad script engine">>))
                     /\ UNCHANGED <<script, available_scriptengine_workers, script_requests, enumeration, library, publish_jobs, disk, tasks, batches>>
                ELSE /\ Len(tasks) < MaxTasks
                     /\ tasks' = Append(tasks, Task(r, "race"))
                     /\ last' = Step("enqueue", Len(tasks) + 1, NoResponse)
                     /\ UNCHANGED <<script, available_scriptengine_workers, script_requests, enumeration, library, publish_jobs, disk, batches>>

HandleRequest == \E req \in ClientRequests(script) : Handle(req)

\* A timer-wins branch whose cancel of the result wait revokes the task at
\* the broker.
TimerWins_revoking_task(t) ==
    /\ tasks[t].watch = "race"
    /\ disk' = set_script_model_is_computing(disk, script, tasks[t].request, TaskId(t))
    /\ tasks' = [tasks EXCEPT ![t].watch = "monitor", ![t].status = "REVOKED"]
    /\ last' = Step("timer_wins", t,
                    go_to_computing_job_url(script, tasks[t].request, TaskId(t)))
    /\ UNCHANGED <<script, available_scriptengine_workers, script_requests, enumeration, library, publish_jobs, batches>>

\* The timer finishes first: the result wait is cancelled, the detached
\* monitor is started, handle writes the marker and redirects.
TimerWins(t) ==
    /\ tasks[t].watch = "race"
    /\ disk' = set_script_model_is_computing(disk, script, tasks[t].request, TaskId(t))
    /\ tasks' = [tasks EXCEPT ![t].watch = "monitor"]
    /\ last' = Step("timer_wins", t,
                    go_to_computing_job_url(script, tasks[t].request, TaskId(t)))
    /\ UNCHANGED <<script, available_scriptengine_workers, script_requests, enumeration, library, publish_jobs, batches>>

\* A result-wins branch that leaves the task to a detached monitor as the
\* timer-wins branch does.
ResultWins_starting_monitor(t) ==
    /\ tasks[t].watch = "race"
    /\ tasks[t].status = "SUCCESS"
    /\ disk' = IF ResultOf(t).results.success
               THEN checkin_script_result_in_cache(disk, script, ResultOf(t))
               ELSE disk
    /\ tasks' = [tasks EXCEPT ![t].watch = "monitor",
                              ![t].commits = IF ResultOf(t).results.success THEN @ + 1 ELSE @]
    /\ batches' = IF ResultOf(t).results.success
                  THEN checkin_batch_stats(batches, ResultOf(t))
                  ELSE batches
    /\ last' = Step("result_wins", t,
                    handle_requested_script_result(tasks[t].request, ResultOf(t)))
    /\ UNCHANGED <<script, available_scriptengine_workers, script_requests, enumeration, library, publish_jobs>>

\* The result finishes first: handle_requested_script_result(new=True).
ResultWins(t) ==
    /\ tasks[t].watch = "race"
    /\ tasks[t].status = "SUCCESS"
    /\ disk' = IF ResultOf(t).results.success
               THEN checkin_script_result_in_cache(disk, script, ResultOf(t))
               ELSE disk
    /\ tasks' = [tasks EXCEPT ![t].watch = "none",
                              ![t].commits = IF ResultOf(t).results.success THEN @ + 1 ELSE @]
    /\ batches' = IF ResultOf(t).results.success
                  THEN checkin_batch_stats(batches, ResultOf(t))
                  ELSE batches
    /\ last' = Step("result_wins", t,
                    handle_requested_script_result(tasks[t].request, ResultOf(t)))
    /\ UNCHANGED <<script, available_scriptengine_workers, script_requests, enumeration, library, publish_jobs>>

\* The task raised: task.get() raises in the result wait and handle fails.
ResultRaises(t) ==
    /\ tasks[t].watch = "race"
    /\ tasks[t].status = "FAILURE"
    /\ tasks' = [tasks EXCEPT ![t].watch = "none"]
    /\ last' = Step("result_raises", t, HTTPException(500, <<"task failed">>))
    /\ UNCHANGED <<script, available_scriptengine_workers, script_requests, enumeration, library, publish_jobs, disk, batches>>

\* Timer and result wait are both done when the race returns and the loop
\* over done_first ends on the timer's False: nothing is pending, so no
\* monitor is started, and handle writes the marker and redirects.
BothDone(t) ==
    /\ tasks[t].watch = "race"
    /\ tasks[t].status = "SUCCESS"
    /\ disk' = set_script_model_is_computing(disk, script, tasks[t].request, TaskId(t))
    /\ tasks' = [tasks EXCEPT ![t].watch = "none"]
    /\ last' = Step("both_done", t,
                    go_to_computing_job_url(script, tasks[t].request, TaskId(t)))
    /\ UNCHANGED <<script, available_scriptengine_workers, script_requests, enumeration, library, publish_jobs, batches>>

\* A monitor that ends once the task is ready without handling its result.
Monitor_without_checkin(t) ==
    /\ tasks[t].watch = "monitor"
    /\ Ready(t)
    /\ tasks' = [tasks EXCEPT ![t].watch = "none"]
    /\ last' = Step("monitor", t, NoResponse)
    /\ UNCHANGED <<script, available_scriptengine_workers, script_requests, enumeration, library, publish_jobs, disk, batches>>

\* monitor_for_celery_result once the task is ready; a task that raised or
\* returned success=false makes the monitor raise before any check-in.
Monitor(t) ==
    /\ tasks[t].watch = "monitor"
    /\ Ready(t)
    /\ disk' = IF tasks[t].status = "SUCCESS" /\ ResultOf(t).results.success
               THEN checkin_script_result_in_cache(disk, script, ResultOf(t))
               ELSE disk
    /\ tasks' = [tasks EXCEPT ![t].watch = "none",
                              ![t].commits =
                                  IF tasks[t].status = "SUCCESS" /\ ResultOf(t).results.success
                                  THEN @ + 1 ELSE @]
    /\ batches' = IF tasks[t].status = "SUCCESS" /\ ResultOf(t).results.success
                  THEN checkin_batch_stats(batches, ResultOf(t))
                  ELSE batches
    /\ last' = Step("monitor", t, NoResponse)
    /\ UNCHANGED <<script, available_scriptengine_workers, script_requests, enumeration, library, publish_jobs>>

----------------------------------------------------------------------------
(* Workers (external): a task ends with a result bundle or raises          *)

WorkerReturns(t, b) ==
    /\ Alive(t)
    /\ tasks' = [tasks EXCEPT ![t].status = "SUCCESS", ![t].result = {b}]
    /\ last' = Step("worker_returns", t, NoResponse)
    /\ UNCHANGED <<script, available_scriptengine_workers, script_requests, enumeration, library, publish_jobs, disk, batches>>

WorkerRaises(t) ==
    /\ Alive(t)
    /\ tasks' = [tasks EXCEPT ![t].status = "FAILURE"]
    /\ last' = Step("worker_raises", t, NoResponse)
    /\ UNCHANGED <<script, available_scriptengine_workers, script_requests, enumeration, library, publish_jobs, disk, batches>>

----------------------------------------------------------------------------
(* CadLibrary.compute_script_cache_async                                   *)

\* A batch: its stats, the index of the next parameter dict, the task the
\* coroutine awaits (0: none), whether the coroutine is still running, how
\* often handle_end_of_batch ran and whether on_done was called.
Batch(n) == [stats |-> ComputeBatchStats(n), next |-> 1, task |-> 0,
             running |-> TRUE, ended |-> 0, on_done |-> FALSE]

BatchStart ==
    /\ Len(batches) < MaxBatches
    /\ is_cachable(script)
    /\ batches' = Append(batches, Batch(get_num_variants(script)))
    /\ last' = Step("batch_start", 0, NoResponse)
    /\ UNCHANGED <<script, available_scriptengine_workers, script_requests, enumeration, library, publish_jobs, disk, tasks>>

\* _submit_and_handle_compute_script_task up to the await of the result.
BatchSubmit(b) ==
    LET param_dicts == iterate_possible_model_params_dicts(script)
        r == _make_cache_compute_script_request(script, param_dicts[batches[b].next], b)
    IN  /\ batches[b].running
        /\ batches[b].task = 0
        /\ batches[b].next <= Len(param_dicts)
        /\ Len(tasks) < MaxTasks
        /\ tasks' = Append(tasks, Task(r, "batch"))
        /\ batches' = [batches EXCEPT ![b].task = Len(tasks) + 1]
        /\ last' = Step("batch_submit", Len(tasks) + 1, NoResponse)
        /\ UNCHANGED <<script, available_scriptengine_workers, script_requests, enumeration, library, publish_jobs, disk>>

\* A batch coroutine that handles the end of the batch after every result.
BatchHandle_ending_after_each_result(b) ==
    LET t == batches[b].task
        checked_in == checkin_batch_stats(batches, ResultOf(t))
        batch_id == ResultOf(t).request.batch_id
        last_one == batches[b].next = Len(iterate_possible_model_params_dicts(script))
    IN  /\ batches[b].running
        /\ t # 0
        /\ tasks[t].status = "SUCCESS"
        /\ disk' = checkin_script_result_in_cache(disk, script, ResultOf(t))
        /\ tasks' = [tasks EXCEPT ![t].watch = "none", ![t].commits = @ + 1]
        /\ batches' = [checked_in EXCEPT
                         ![batch_id].ended = @ + 1,
                         ![b].next = @ + 1,
                         ![b].task = 0,
                         ![b].running = ~last_one,
                         ![b].on_done = last_one]
        /\ \E order \in GlobOrders(library.tree) :
              library' = handle_end_of_batch(library, script, order)
        /\ publish_jobs' = IF last_one THEN on_done(publish_jobs, b) ELSE publish_jobs
        /\ last' = Step("batch_handle", t, NoResponse)
        /\ UNCHANGED <<script, available_scriptengine_workers, script_requests, enumeration>>

\* The awaited result arrives: check-in, stats, end-of-batch detection with
\* handle_end_of_batch, and after the last parameter dict on_done.
BatchHandle(b) ==
    LET t == batches[b].task
        checked_in == checkin_batch_stats(batches, ResultOf(t))
        batch_id == ResultOf(t).request.batch_id
        last_one == batches[b].next = Len(iterate_possible_model_params_dicts(script))
    IN  /\ batches[b].running
        /\ t # 0
        /\ tasks[t].status = "SUCCESS"
        /\ disk' = checkin_script_result_in_cache(disk, script, ResultOf(t))
        /\ tasks' = [tasks EXCEPT ![t].watch = "none", ![t].commits = @ + 1]
        /\ batches' = [checked_in EXCEPT
                         ![batch_id].ended =
                             IF checked_in[batch_id].stats.done = checked_in[batch_id].stats.tasks
                             THEN @ + 1 ELSE @,
                         ![b].next = @ + 1,
                         ![b].task = 0,
                         ![b].running = ~last_one,
                         ![b].on_done = last_one]
        /\ \E order \in GlobOrders(library.tree) :
              library' = IF checked_in[batch_id].stats.done = checked_in[batch_id].stats.tasks
                         THEN handle_end_of_batch(library, script, order)
                         ELSE library
        /\ publish_jobs' = IF last_one THEN on_done(publish_jobs, b) ELSE publish_jobs
        /\ last' = Step("batch_handle", t, NoResponse)
        /\ UNCHANGED <<script, available_scriptengine_workers, script_requests, enumeration>>

\* The awaited task raised: the exception ends the batch coroutine.
BatchRaises(b) ==
    LET t == batches[b].task
    IN  /\ batches[b].running
        /\ t # 0
        /\ tasks[t].status = "FAILURE"
        /\ tasks' = [tasks EXCEPT ![t].watch = "none"]
        /\ batches' = [batches EXCEPT ![b].running = FALSE, ![b].task = 0]
        /\ last' = Step("batch_raises", t, NoResponse)
        /\ UNCHANGED <<script, available_scriptengine_workers, script_requests, enumeration, library, publish_jobs, disk>>

----------------------------------------------------------------------------
(* Process restart: CadLibrary.__init__ sweeps the markers                 *)

\* A sweep that unlinks every file it finds, not only the markers.
_clear_all_files(d) == [x \in DOMAIN d |-> EmptyDir]

\* A sweep that removes the whole content of every directory that holds a
\* marker.
_clear_computing_dirs(d) ==
    [x \in DOMAIN d |-> IF \E f \in d[x].files : IsComputeFile(f) THEN EmptyDir ELSE d[x]]

\* CadLibrary._clear_computing_files
_clear_computing_files(d) == [x \in DOMAIN d |-> [d[x] EXCEPT !.files = {f \in @ : ~IsComputeFile(f)}]]

\* The server process is started again: races, monitors and batch coroutines
\* of the old process are gone, the tasks stay with the broker.
Restart ==
    /\ disk' = _clear_computing_files(disk)
    /\ tasks' = [t \in DOMAIN tasks |-> [tasks[t] EXCEPT !.watch = "none"]]
    /\ batches' = [b \in DOMAIN batches |-> [batches[b] EXCEPT !.running = FALSE, !.task = 0]]
    /\ last' = Step("restart", 0, NoResponse)
    /\ UNCHANGED <<script, available_scriptengine_workers, script_requests, enumeration, library, publish_jobs>>

----------------------------------------------------------------------------
(* Specifications                                                          *)

Next ==
    \/ HandleRequest
    \/ \E t \in DOMAIN tasks : TimerWins(t)
    \/ \E t \in DOMAIN tasks : ResultWins(t)
    \/ \E t \in DOMAIN tasks : ResultRaises(t)
    \/ \E t \in DOMAIN tasks : BothDone(t)
    \/ \E t \in DOMAIN tasks : Monitor(t)
    \/ \E t \in DOMAIN tasks : \E b \in WorkerResults(script) : WorkerReturns(t, b)
    \/ \E t \in DOMAIN tasks : WorkerRaises(t)
    \/ BatchStart
    \/ \E b \in DOMAIN batches : BatchSubmit(b)
    \/ \E b \in DOMAIN batches : BatchHandle(b)
    \/ \E b \in DOMAIN batches : BatchRaises(b)
    \/ Restart

Spec == Init /\ [][Next]_vars

\* Sequential dispatcher entry per fingerprint: a request enters handle only
\* after the previous handle call for its fingerprint has returned (no race
\* for that fingerprint is still open). HTTP requests, timers, monitors and
\* workers only.
HandleSeq(req) ==
    /\ \A t \in DOMAIN tasks :
          tasks[t].watch = "race" =>
              DirOf(t) # _get_script_version_cached_model_dir(script,
                             _req_to_script_request(script, req))
    /\ Handle(req)

NextSeq ==
    \/ \E req \in ClientRequests(script) : HandleSeq(req)
    \/ \E t \in DOMAIN tasks : TimerWins(t)
    \/ \E t \in DOMAIN tasks : ResultWins(t)
    \/ \E t \in DOMAIN tasks : ResultRaises(t)
    \/ \E t \in DOMAIN tasks : BothDone(t)
    \/ \E t \in DOMAIN tasks : Monitor(t)
    \/ \E t \in DOMAIN tasks : \E b \in WorkerResults(script) : WorkerReturns(t, b)
    \/ \E t \in DOMAIN tasks : WorkerRaises(t)

SpecSeq == Init /\ [][NextSeq]_vars

\* The HTTP side of a running server process: requests may overlap; the
\* detached monitor polls its task every second on the event loop, so once
\* the task is ready the monitor does run.
NextHttp ==
    \/ HandleRequest
    \/ \E t \in DOMAIN tasks : TimerWins(t)
    \/ \E t \in DOMAIN tasks : ResultWins(t)
    \/ \E t \in DOMAIN tasks : ResultRaises(t)
    \/ \E t \in DOMAIN tasks : BothDone(t)
    \/ \E t \in DOMAIN tasks : Monitor(t)
    \/ \E t \in DOMAIN tasks : \E b \in WorkerResults(script) : WorkerReturns(t, b)
    \/ \E t \in DOMAIN tasks : WorkerRaises(t)

SpecLive ==
    /\ Init
    /\ [][NextHttp]_vars
    /\ \A t \in 1 .. MaxTasks : WF_vars(t \in DOMAIN tasks /\ Monitor(t))

----------------------------------------------------------------------------
(* Requests without a version, and the job URL                             *)

\* req.script_special_requested_entity; "" stands for None.
NoEntity == ""
SpecialEntities == {NoEntity, "versions", "params", "presets", "files"}
\* str(value) of the entity in an f-string.
entity_str(special) == IF special = NoEntity THEN "None" ELSE special

\* sep.join(list)
RECURSIVE join(_, _)
join(sep, list) ==
    IF list = <<>> THEN ""
    ELSE IF Len(list) = 1 THEN list[1]
    ELSE list[1] \o sep \o join(sep, Tail(list))

\* ModelRequestInput.get_param_query_string: the fields without 'script_' in
\* their name and without a dict value, in field order.
get_param_query_string(s, req) ==
    "?" \o join("&", <<"format=" \o req.format, "output=" \o req.output>>
                     \o [i \in DOMAIN s.params |->
                            s.params[i].name \o "=" \o py_str(req.fields[s.params[i].name])])

\* ModelRequestInput.get_query_string
get_query_string(s, req, special) ==
    get_param_query_string(s, req) \o "&script_special_requested_entity=" \o entity_str(special)

\* The answer of a view (versions, params, presets) of a script.
ViewResponse == [NoResponse EXCEPT !.kind = "json", !.code = 200]

\* handle for a request without a version that redirects to the namespace
\* itself instead of the latest version.
handle_no_version_to_namespace(s, req, special) ==
    IF special \in {"versions", "params", "presets"}
    THEN ViewResponse
    ELSE RedirectResponse("/" \o get_namespace(s) \o get_query_string(s, req, special))

\* ModelRequestHandler.handle for a request with script_version None; s is
\* the script get_script_request(org, name) resolves to.
handle_no_version(s, req, special) ==
    IF special \in {"versions", "params", "presets"}
    THEN ViewResponse
    ELSE RedirectResponse("/" \o get_namespace(s) \o "/" \o s.version
                          \o get_query_string(s, req, special))

\* The operation recorded for a request without a version.
NoVersionOp(special) == "no_version:" \o entity_str(special)

\* A request served by a default route rt of the namespace of the script
\* under service: /{org}/{name} with any special entity in the query, or
\* /{org}/{name}/versions; the endpoint function sets script_org and
\* script_name to those of the script the route was generated for.
HandleNoVersion(rt, req, special) ==
    /\ rt.endpoint \in {"get_model_get", "get_model_get_versions"}
    /\ get_namespace(rt.script) = get_namespace(script)
    /\ rt.endpoint = "get_model_get_versions" => special = "versions"
    /\ last' = Step(NoVersionOp(special), 0,
                    handle_no_version(latest_scripts(get_namespace(rt.script)), req, special))
    /\ UNCHANGED <<script, available_scriptengine_workers, script_requests, enumeration, library, publish_jobs, disk, tasks, batches>>

\* AsyncResult(task_id).state: an id the backend does not know is PENDING.
AsyncResult_state(tks, task_id) ==
    IF \E t \in DOMAIN tks : TaskId(t) = task_id
    THEN tks[CHOOSE t \in DOMAIN tks : TaskId(t) = task_id].status
    ELSE "PENDING"

\* celery.states.READY_STATES
READY_STATES == {"SUCCESS", "FAILURE", "REVOKED"}

\* main.get_model_compute_task. For a task that is not ready it calls
\* check_script_model_computing_job(script_name, script_instance_hash) with
\* the name, a str, as the script: _get_script_version_dir reads script.org,
\* the call raises AttributeError and the server answers 500.
get_model_compute_task(tks, script_name, script_instance_hash, celery_task_id) ==
    LET state == AsyncResult_state(tks, celery_task_id)
    IN  IF state \in {"PENDING", "FAILURE"}
        THEN HTTPException(404, <<"Compute task not found or in error state. Please go back to original request url!">>)
        ELSE IF state \in READY_STATES
        THEN LET t == CHOOSE x \in DOMAIN tks : TaskId(x) = celery_task_id
             IN  JsonResponse(_apply_single_model_format(
                     CadScriptResult(tks[t].request, CHOOSE b \in tks[t].result : TRUE)))
        ELSE InternalServerError

\* The answer to GET path when only the job endpoint can serve the path.
get_job(tks, path) ==
    IF route(path) = {} THEN NotFound
    ELSE get_model_compute_task(tks, path[2], path[3], path[5])

\* An id no task was enqueued under.
UnknownTaskId == "0"
\* The task a task id names, 0 for none.
TaskOfId(task_id) ==
    IF \E t \in DOMAIN tasks : TaskId(t) = task_id
    THEN CHOOSE t \in DOMAIN tasks : TaskId(t) = task_id ELSE 0

\* A client follows the URL go_to_computing_job_url redirected it to for
\* task t: handle has written the marker of t and redirected (the monitor is
\* pending or the marker is still there).
GetJobUrl(t) ==
    LET path == computing_job_url_path(script, tasks[t].request, TaskId(t))
    IN  /\ tasks[t].watch = "monitor" \/ ComputeFile(TaskId(t)) \in disk[DirOf(t)].files
        /\ \A rt \in route(path) : rt.endpoint = "get_model_compute_task"
        /\ last' = Step("get_job_url", t, get_job(tasks, path))
        /\ UNCHANGED <<script, available_scriptengine_workers, script_requests, enumeration, library, publish_jobs, disk, tasks, batches>>

\* A client polls the route of the job endpoint for a fingerprint of the
\* script and a task id.
GetJobRoute(h, task_id) ==
    LET path == <<script.org, script.name, h, REDIRECTING_COMPUTING_STATE, task_id>>
    IN  /\ \A rt \in route(path) : rt.endpoint = "get_model_compute_task"
        /\ last' = Step("get_job_route", TaskOfId(task_id), get_job(tasks, path))
        /\ UNCHANGED <<script, available_scriptengine_workers, script_requests, enumeration, library, publish_jobs, disk, tasks, batches>>

\* The fingerprints of the script under service.
ScriptHashes(s) == {hash(s, _req_to_script_request(s, req).params) : req \in ModelRequestInputs(s)}

\* The requests clients send to a default endpoint in the behaviours
\* explored: every parameter value, the full bundle in step, no docs.
DefaultRequests(s) ==
    {req \in ClientRequests(s) : req.output = "full" /\ req.settings.docs = DocsUnset}

\* Sequential dispatcher entry per fingerprint, with requests to the default
\* endpoints of the namespace.
NextDefault ==
    \/ \E req \in ClientRequests(script) : HandleSeq(req)
    \/ \E t \in DOMAIN tasks : TimerWins(t)
    \/ \E t \in DOMAIN tasks : ResultWins(t)
    \/ \E t \in DOMAIN tasks : ResultRaises(t)
    \/ \E t \in DOMAIN tasks : BothDone(t)
    \/ \E t \in DOMAIN tasks : Monitor(t)
    \/ \E t \in DOMAIN tasks : \E b \in WorkerResults(script) : WorkerReturns(t, b)
    \/ \E t \in DOMAIN tasks : WorkerRaises(t)
    \/ \E rt \in {x \in Routes : x.endpoint \in {"get_model_get", "get_model_get_versions"}} :
          \E req \in DefaultRequests(rt.script) :
              \E special \in SpecialEntities : HandleNoVersion(rt, req, special)

SpecDefault == Init /\ [][NextDefault]_vars

\* Sequential dispatcher entry per fingerprint, with clients that poll the
\* job URL they were redirected to and the route of the job endpoint.
NextJob ==
    \/ \E req \in ClientRequests(script) : HandleSeq(req)
    \/ \E t \in DOMAIN tasks : TimerWins(t)
    \/ \E t \in DOMAIN tasks : ResultWins(t)
    \/ \E t \in DOMAIN tasks : ResultRaises(t)
    \/ \E t \in DOMAIN tasks : BothDone(t)
    \/ \E t \in DOMAIN tasks : Monitor(t)
    \/ \E t \in DOMAIN tasks : \E b \in WorkerResults(script) : WorkerReturns(t, b)
    \/ \E t \in DOMAIN tasks : WorkerRaises(t)
    \/ \E t \in DOMAIN tasks : GetJobUrl(t)
    \/ \E h \in ScriptHashes(script) :
          \E task_id \in {TaskId(t) : t \in DOMAIN tasks} \cup {UnknownTaskId} :
              GetJobRoute(h, task_id)

SpecJob == Init /\ [][NextJob]_vars

----------------------------------------------------------------------------
(* Request coalescing                                                      *)

\* The result of task t is not yet committed and a handle call or a monitor
\* of this process still waits for it.
Uncommitted(t) == tasks[t].watch \in {"race", "monitor"}

\* C1: a request that enters handle after an identical request (same script
\* version, same fingerprint) has enqueued its task and before that task's
\* result is committed enqueues no task: no enqueue happens for a fingerprint
\* that has an uncommitted task of an earlier request.
C1_SecondRequestEnqueuesNothing ==
    last.op = "enqueue" =>
        \A t \in DOMAIN tasks \ {last.task} :
            ~(DirOf(t) = DirOf(last.task) /\ Uncommitted(t))

\* C2: with sequential dispatcher entry per fingerprint, no two tasks of the
\* same script version and fingerprint are alive at the same time.
C2_AtMostOneAliveTask ==
    \A t1, t2 \in DOMAIN tasks :
        (t1 # t2 /\ DirOf(t1) = DirOf(t2)) => ~(Alive(t1) /\ Alive(t2))

\* C2 witness: a task is alive after its caller was redirected, and a later
\* request for the same fingerprint has just been redirected to its job URL.
C2_RedirectedWhileAlive ==
    \E t \in DOMAIN tasks :
        /\ Alive(t)
        /\ tasks[t].watch = "monitor"
        /\ last.op = "in_flight"
        /\ last.response.url = go_to_computing_job_url(script, tasks[t].request, TaskId(t)).url

----------------------------------------------------------------------------
(* Late completion                                                         *)

\* Task t of a cachable script returned success=true after the timer fired:
\* the caller was redirected and the detached monitor holds the result.
LateSuccess(t) ==
    /\ t \in DOMAIN tasks
    /\ is_cachable(script)
    /\ tasks[t].watch = "monitor"
    /\ tasks[t].status = "SUCCESS"
    /\ ResultOf(t).results.success

\* The monitor of task t has just handled the result: result.json is in the
\* fingerprint directory and no marker is.
MonitorCommitted(t) ==
    /\ t \in DOMAIN tasks
    /\ last.op = "monitor" /\ last.task = t
    /\ tasks[t].status = "SUCCESS"
    /\ RESULT_JSON \in disk[DirOf(t)].files
    /\ \A f \in disk[DirOf(t)].files : ~IsComputeFile(f)

\* Every request with the parameter values of task t and no docs settings is
\* a cache hit.
SameParamsCached(t) ==
    \A req \in ModelRequestInputs(script) :
        LET r == _req_to_script_request(script, req)
        IN  (r.params = tasks[t].request.params /\ r.settings.docs = DocsUnset)
                => is_cached(disk, script, r)

----------------------------------------------------------------------------
(* Failed results                                                          *)

\* This step hands the result of task t to the receiver that waited for it:
\* the short path of handle, the detached monitor or the batch coroutine.
ReceivesResult(t) ==
    /\ last'.op \in {"result_wins", "monitor", "batch_handle"}
    /\ last'.task = t
    /\ tasks[t].status = "SUCCESS"

\* C4: on every path that receives a result, a result with success=false
\* writes no result.json, no result.<format> and no auxiliary file under its
\* fingerprint, and the short path of handle answers with an HTTP error that
\* carries the worker's error list.
C4_FailedResultNeverCached ==
    [][\A t \in DOMAIN tasks :
          (ReceivesResult(t) /\ ~ResultOf(t).results.success) =>
              /\ disk'[DirOf(t)].files \subseteq disk[DirOf(t)].files
              /\ disk'[DirOf(t)].json = disk[DirOf(t)].json
              /\ last'.op = "result_wins" =>
                    /\ last'.response.kind = "error"
                    /\ last'.response.errors = ResultOf(t).results.errors]_vars

----------------------------------------------------------------------------
(* Persistence of cache entries                                            *)

\* C5 as stated: once result.json exists for a fingerprint it exists in
\* every later state: no step removes it.
C5_ResultJsonNeverRemoved ==
    [][\A d \in CacheDirs :
          RESULT_JSON \in disk[d].files => RESULT_JSON \in disk'[d].files]_vars

\* C5 amended: result.json of a fingerprint survives every step except the
\* write of an in-flight marker for that same fingerprint
\* (set_script_model_is_computing clears the directory first): requests,
\* marker writes for other fingerprints, commits, batch steps and startup
\* sweeps keep it.
C5_ResultJsonRemovedOnlyByMarkerWrite ==
    [][\A d \in CacheDirs :
          (RESULT_JSON \in disk[d].files /\ RESULT_JSON \notin disk'[d].files) =>
              /\ last'.op \in {"timer_wins", "both_done"}
              /\ DirOf(last'.task) = d]_vars

\* C5 witness: a startup sweep has run over a cache that holds a result.json
\* of one fingerprint and a task of another fingerprint whose marker it
\* removed.
C5_EntrySurvivedSweep ==
    /\ last.op = "restart"
    /\ \E d \in CacheDirs : RESULT_JSON \in disk[d].files
    /\ \E t \in DOMAIN tasks : Alive(t) /\ RESULT_JSON \notin disk[DirOf(t)].files

----------------------------------------------------------------------------
(* Markers after a commit                                                  *)

\* The last step ran checkin_script_result_in_cache on the result of task t:
\* the short path and the monitor for a result with success=true, the batch
\* coroutine for every result.
Committed(t) ==
    /\ last.task = t
    /\ tasks[t].status = "SUCCESS"
    /\ \/ last.op = "batch_handle"
       \/ last.op \in {"result_wins", "monitor"} /\ ResultOf(t).results.success

\* C6: after the commit of a result, cachable script or not, models or not,
\* the directory where the dispatcher writes the marker of that request
\* (DirOf, from the request as sent) is the directory of the result and holds
\* no .compute file.
C6_NoMarkerAfterCommit ==
    \A t \in DOMAIN tasks :
        Committed(t) =>
            /\ _get_script_version_cached_model_dir(script, ResultOf(t).request) = DirOf(t)
            /\ \A f \in disk[DirOf(t)].files : ~IsComputeFile(f)

\* C6 witness: the monitor has committed the result without models of a
\* script that is not cachable, after the dispatcher had written the marker.
C6_MonitorCommittedUncachable ==
    \E t \in DOMAIN tasks :
        /\ Committed(t)
        /\ last.op = "monitor"
        /\ ~is_cachable(script)
        /\ ResultOf(t).results.models = {}

----------------------------------------------------------------------------
(* result.json and the model files                                         *)

HasModelFile(d) ==
    \E f \in {"step", "stl", "gltf"} : <<"result", "." \o f>> \in disk[d].files

\* C7: in every reachable state and every fingerprint directory result.json
\* exists if and only if at least one of result.step, result.stl,
\* result.gltf exists.
C7_ResultJsonIffModelFile ==
    \A d \in CacheDirs : RESULT_JSON \in disk[d].files <=> HasModelFile(d)

----------------------------------------------------------------------------
(* is_cached and the docs of an archiyou request                           *)

\* The docs settings a request may carry: none, True, or a list of declared
\* and undeclared doc names.
DocsSettings == {DocsUnset, DocsTrue} \cup {DocsList(l) : l \in SUBSET {"spec", "plan", "manual"}}

\* The docs a request asks for: True expands to the declared docs, a list is
\* filtered to the declared docs.
RequestedDocs(s, docs) ==
    IF docs.kind = "true" THEN s.cad_engine_config.docs
    ELSE IF docs.kind = "list" THEN docs.list \cap s.cad_engine_config.docs
    ELSE {}

\* C8: is_cached(request) is true iff result.json exists for the request's
\* fingerprint and, for an archiyou script, every requested doc d has d.pdf
\* among the cached results.files; cached files that were not requested do
\* not matter.
C8_IsCachedIffRequestedDocsCached ==
    \A req \in ModelRequestInputs(script) : \A docs \in DocsSettings :
        LET r == [_req_to_script_request(script, req) EXCEPT !.settings.docs = docs]
            dir == disk[_get_script_version_cached_model_dir(script, r)]
        IN  is_cached(disk, script, r) <=>
                /\ RESULT_JSON \in dir.files
                /\ script.cad_engine = "archiyou" =>
                      \A c \in dir.json : \A d \in RequestedDocs(script, docs) :
                          <<d, ".pdf">> \in c.results.files

----------------------------------------------------------------------------
(* Cache hits                                                              *)

\* Every script request a client may send for script s with output=full:
\* every parameter value and format, and for an archiyou script no docs
\* setting, True, or a list of one declared doc.
FullRequests(s) ==
    {_req_to_script_request(s, [fields |-> f, format |-> fm, output |-> "full",
                                settings |-> [docs |-> docs]]) :
        f \in FieldMaps(s), fm \in ModelFormat,
        docs \in IF s.cad_engine = "archiyou"
                 THEN {DocsUnset, DocsTrue, DocsList({"spec"})} ELSE {DocsUnset}}

\* The bundles handle returns for request r on a cache hit with output=full.
FullCacheHit(r) ==
    IF is_cached(disk, script, r)
    THEN UNION {handle_requested_script_result(r, c).body :
                   c \in get_cached_script(disk, script, r)}
    ELSE {}

\* The bundle in result.json of the fingerprint of request r.
CachedBundle(r) == disk[_get_script_version_cached_model_dir(script, r)].json

\* C9 as stated: on a cache hit with output=full results.models of the
\* returned bundle has exactly one key, the requested format.
C9_CacheHitHasExactlyRequestedFormat ==
    \A r \in FullRequests(script) : \A b \in FullCacheHit(r) :
        models_keys(b.results.models) = {r.format}

\* C9 amended: on a cache hit with output=full results.models of the
\* returned bundle has the requested format as its one key when the cached
\* bundle has a non-empty model in that format, and is empty otherwise.
C9_CacheHitHasAtMostRequestedFormat ==
    \A r \in FullRequests(script) : \A b \in FullCacheHit(r) :
        \A c \in CachedBundle(r) :
            models_keys(b.results.models) =
                IF truthy(models_get(c.results.models, r.format)) THEN {r.format} ELSE {}

\* C9 witness: a cache hit was answered with a JSON bundle from an entry
\* that holds a step and an stl model.
C9_FullCacheHitServed ==
    /\ last.op = "cache_hit"
    /\ last.response.kind = "json"
    /\ \E r \in FullRequests(script) :
          /\ FullCacheHit(r) # {}
          /\ \E c \in CachedBundle(r) : models_keys(c.results.models) = {"step", "stl"}

----------------------------------------------------------------------------
(* Commit and read back                                                    *)

\* Every script request a client may send for script s: every parameter
\* value, format, output and docs setting.
ScriptRequests(s) ==
    {[_req_to_script_request(s, req) EXCEPT !.settings.docs = docs] :
        req \in ModelRequestInputs(s), docs \in DocsSettings}

\* The last step committed the successful result of task t of a cachable
\* script.
CommittedSuccess(t) ==
    /\ Committed(t)
    /\ is_cachable(script)
    /\ ResultOf(t).results.success

----------------------------------------------------------------------------
(* Result-wins branch of the race                                          *)

\* The marker files of the whole cache tree.
Markers(d) ==
    UNION {{<<x, f>> : f \in {g \in d[x].files : IsComputeFile(g)}} : x \in DOMAIN d}

\* This step is the return of handle through the result-wins branch for task t.
ResultWinsStep(t) ==
    /\ t \in DOMAIN tasks
    /\ tasks[t].watch = "race"
    /\ last'.op = "result_wins" /\ last'.task = t

\* No step after the race of a task is over reopens it or hands the task to a
\* monitor, and no task's result is passed to the check-in twice.
RaceOverForGood ==
    /\ \A t \in DOMAIN tasks : tasks[t].watch = "none" => tasks'[t].watch = "none"
    /\ \A t \in DOMAIN tasks' : tasks'[t].commits <= 1

\* C11 as stated: when the result wins the race, the timer is cancelled, the
\* check-in is invoked exactly once for the task, no marker is written, no
\* monitor is started and the caller gets the result, not a redirect.
C11_ResultWinsCommitsOnceAndServes ==
    [][/\ RaceOverForGood
       /\ \A t \in DOMAIN tasks :
             ResultWinsStep(t) =>
                 /\ tasks'[t].commits = 1
                 /\ tasks'[t].watch = "none"
                 /\ Markers(disk') \subseteq Markers(disk)
                 /\ last'.response.kind \in {"json", "file"}]_vars

\* C11 amended: when a result with success=true wins the race, the timer is
\* cancelled, the check-in is invoked exactly once for the task, no marker is
\* written, no monitor is started and the caller gets the result (200) per
\* output; when a result with success=false wins, the same holds except that
\* the check-in is not invoked, the cache is left as it is and the caller
\* gets a 404 with the error list.
C11_ResultWinsSuccessCommitsOnce ==
    [][/\ RaceOverForGood
       /\ \A t \in DOMAIN tasks :
             ResultWinsStep(t) =>
                 /\ tasks'[t].watch = "none"
                 /\ Markers(disk') \subseteq Markers(disk)
                 /\ IF ResultOf(t).results.success
                    THEN /\ tasks'[t].commits = 1
                         /\ last'.response.code = 200
                         /\ last'.response.kind =
                               (IF tasks[t].request.output = "full" THEN "json" ELSE "file")
                    ELSE /\ tasks'[t].commits = 0
                         /\ disk' = disk
                         /\ last'.response = HTTPException(404, ResultOf(t).results.errors)]_vars

\* C11 witness: handle has just returned through the result-wins branch with
\* a successful result that is now in the cache, committed once, with no
\* marker in the directory and nobody watching the task.
C11_ResultWonAndCached ==
    \E t \in DOMAIN tasks :
        /\ last.op = "result_wins" /\ last.task = t
        /\ ResultOf(t).results.success
        /\ tasks[t].commits = 1
        /\ tasks[t].watch = "none"
        /\ last.response.kind = "json"
        /\ RESULT_JSON \in disk[DirOf(t)].files
        /\ \A f \in disk[DirOf(t)].files : ~IsComputeFile(f)

----------------------------------------------------------------------------
(* Dispatch without a worker pool                                          *)

\* The outcomes of a handle call for a versioned model endpoint.
HandleOps == {"cache_hit", "in_flight", "no_workers", "enqueue"}

\* C13: a request that misses the cache and finds no in-flight marker while
\* no worker pool is available for the script's engine fails with a 500 "no
\* workers available"; it enqueues no task, writes no marker and leaves the
\* cache as it is.
C13_NoWorkersFailsWithoutEffect ==
    [][(/\ last'.op \in HandleOps \ {"cache_hit", "in_flight"}
        /\ ~script_engine_has_workers(script, available_scriptengine_workers))
          => /\ last'.op = "no_workers"
             /\ last'.response.kind = "error"
             /\ last'.response.code = 500
             /\ tasks' = tasks
             /\ disk' = disk
             /\ batches' = batches]_vars

\* C13 witness: the batch precompute has filled a cache entry of a script
\* whose engine has no worker pool registered, and a request for another
\* fingerprint of that script, a miss with no marker, has just been refused.
C13_RefusedBesideCachedEntry ==
    /\ last.op = "no_workers"
    /\ last.response.code = 500
    /\ ~script_engine_has_workers(script, available_scriptengine_workers)
    /\ \E d \in ScriptCacheDirs(script) : RESULT_JSON \in disk[d].files
    /\ \E d \in ScriptCacheDirs(script) : disk[d].files = {}

----------------------------------------------------------------------------
(* Requests without a version                                              *)

\* The last step answered a request without a version that carried the
\* special entity `special`.
NoVersionStep(special) == last'.op = NoVersionOp(special)

\* The script with the greatest version among the scripts of a namespace.
LatestOfNamespace(ns) ==
    CHOOSE s \in LibraryScripts :
        /\ get_namespace(s) = ns
        /\ \A x \in LibraryScripts :
              get_namespace(x) = ns
                  => ~Version_lt(Version_parse(s.version), Version_parse(x.version))

\* The response is a redirect to the versioned model endpoint of the latest
\* version of the namespace of the script under service, with the query
\* string of some request: the route that serves the target exists, is that
\* endpoint, and assigns a version to the request it handles.
RedirectsToLatestVersion(response, special) ==
    LET latest == LatestOfNamespace(get_namespace(script))
        target == <<latest.org, latest.name, latest.version>>
    IN  /\ response.kind = "redirect" /\ response.code = 307
        /\ \E req \in DefaultRequests(latest) :
              response.url = url_of(target) \o get_query_string(latest, req, special)
        /\ route(target) # {}
        /\ \A rt \in route(target) :
              /\ rt.endpoint = "get_model_get_version"
              /\ rt.script = latest
              /\ rt.script_version # NoVersion

----------------------------------------------------------------------------
(* The job endpoint                                                        *)

\* The state the backend reports for the task the last step concerned.
PolledState == IF last.task = 0 THEN "PENDING" ELSE tasks[last.task].status

\* The 404 of the job endpoint.
GoBackToOriginalUrl ==
    HTTPException(404, <<"Compute task not found or in error state. Please go back to original request url!">>)

\* C14: the answer of the job endpoint is determined by the task state: SENT,
\* STARTED or RETRY gives 202 with the marker's metadata, a ready successful
\* task gives its result (200), FAILURE and every other state, the PENDING
\* of an unknown id included, gives 404 "go back to the original url".
C14_JobAnswerFollowsTaskState ==
    last.op = "get_job_route" =>
        CASE PolledState \in {"SENT", "STARTED", "RETRY"} ->
                 last.response.kind = "json" /\ last.response.code = 202
          [] PolledState = "SUCCESS" ->
                 last.response.kind = "json" /\ last.response.code = 200
          [] OTHER -> last.response = GoBackToOriginalUrl

\* C15: the URL the dispatcher redirects to on timeout is served by the job
\* endpoint: a client that follows it gets 202 while the task is alive and
\* 200 once it has succeeded, and never 404 in either state.
C15_RedirectUrlIsServedByJobEndpoint ==
    last.op = "get_job_url" =>
        /\ Alive(last.task) => last.response.code = 202
        /\ tasks[last.task].status = "SUCCESS" => last.response.code = 200
        /\ tasks[last.task].status \in {"SENT", "SUCCESS"} => last.response.code # 404

----------------------------------------------------------------------------
(* CadScript.hash on the requests of the dispatcher                        *)

\* The creation times a request may carry.
MaxCreatedAt == 2
\* The calls of hash() made on one request object.
MaxHashCalls == 2

\* The CadScriptRequest get_script_request and _req_to_script_request make of
\* a request: the request filled from the input, created_at refreshed,
\* request.hash None ("").
CadScriptRequest(s, req, created_at) ==
    [name |-> s.name,
     request |-> [_req_to_script_request(s, req) EXCEPT !.batch_id = 0],
     created_at |-> created_at, hash |-> ""]

\* A hash() that also digests the requested format.
CadScriptRequest_hash_with_format(self) ==
    LET h == _hash(self.name \o params_str(self.request.params) \o self.request.format)
    IN  [self |-> [self EXCEPT !.hash = h], returned |-> h]

\* CadScript.hash() called without params on a CadScriptRequest: it digests
\* self.name and the (name, value) pairs of self.request.params in order,
\* stores the digest in self.request.hash and returns it.
CadScriptRequest_hash(self) ==
    LET h == _hash(self.name \o params_str(self.request.params))
    IN  [self |-> [self EXCEPT !.hash = h], returned |-> h]

\* A request object under study: the object, the calls of hash() made on it
\* and what the last call returned.
Studied(obj) == [obj |-> obj, calls |-> 0, returned |-> ""]

\* Two requests of the dispatcher for the script under service.
InitHash ==
    /\ script \in Scripts
    /\ available_scriptengine_workers = {"cadquery", "archiyou"}
    /\ disk = [d \in CacheDirs |-> EmptyDir]
    /\ tasks = <<>>
    /\ batches = <<>>
    /\ last = Step("init", 0, NoResponse)
    /\ enumeration = <<>>
    /\ library = NoLibrary
    /\ publish_jobs = <<>>
    /\ script_requests \in
          [1 .. 2 -> {Studied(CadScriptRequest(script, req, c)) :
                         req \in ModelRequestInputs(script), c \in 1 .. MaxCreatedAt}]

\* script_request.hash() on the i-th request.
HashCall(i) ==
    LET r == CadScriptRequest_hash(script_requests[i].obj)
    IN  /\ script_requests[i].calls < MaxHashCalls
        /\ script_requests' = [script_requests EXCEPT
                                  ![i] = [obj |-> r.self, calls |-> @.calls + 1,
                                          returned |-> r.returned]]
        /\ last' = Step("hash", 0, NoResponse)
        /\ UNCHANGED <<script, available_scriptengine_workers, enumeration, library, publish_jobs, disk, tasks, batches>>

NextHash == \E i \in DOMAIN script_requests : HashCall(i)

SpecHash == InitHash /\ [][NextHash]_vars

\* C16: two requests of the dispatcher for the same script with the same
\* values of the declared parameters get the same fingerprint, returned and
\* stored, whatever their format, output, settings and creation time and
\* however often hash() was called on either before.
C16_FingerprintOfNameAndParamsOnly ==
    \A i, j \in DOMAIN script_requests :
        /\ script_requests[i].calls > 0 /\ script_requests[j].calls > 0
        /\ script_requests[i].obj.request.params = script_requests[j].obj.request.params
        => /\ script_requests[i].returned = script_requests[j].returned
           /\ script_requests[i].obj.hash = script_requests[j].obj.hash
           /\ script_requests[i].obj.hash = script_requests[i].returned

\* C16 witness: two requests with the same parameter values that differ in
\* format, output and creation time, hashed once and twice, carry the same
\* fingerprint.
C16_SameFingerprintAcrossFormats ==
    /\ script_requests # <<>>
    /\ script_requests[1].obj.request.params = script_requests[2].obj.request.params
    /\ script_requests[1].obj.request.format # script_requests[2].obj.request.format
    /\ script_requests[1].obj.request.output # script_requests[2].obj.request.output
    /\ script_requests[1].obj.created_at # script_requests[2].obj.created_at
    /\ script_requests[1].calls = 1 /\ script_requests[2].calls = MaxHashCalls
    /\ script_requests[1].returned = script_requests[2].returned
    /\ script_requests[1].returned # ""

----------------------------------------------------------------------------
(* Parameter domains and the enumerator (Param.py, CadScript.py)           *)

\* The greatest start and end of a number parameter, the greatest step, and
\* the greatest number of parameters of a script.
MaxStart == 2
MaxEnd == 4
MaxStep == 2
MaxParams == 2

\* The descriptors a script config may declare: number parameters whose end
\* lies on or off the grid, a boolean, options with and without the
\* characters "&" and "=", and a number parameter that is switched off.
EnumParams ==
    {ParamConfigNumber("size", start, end, step) :
        start \in 1 .. MaxStart, end \in 1 .. MaxEnd, step \in 1 .. MaxStep}
    \cup {ParamConfigBoolean("flag"),
          ParamConfigOptions("a", <<"x", "x&b=y">>),
          ParamConfigOptions("b", <<"z", "y&b=z">>),
          ParamConfigOptions("c", <<"s", "m", "l">>),
          ParamConfigNumberDisabled("depth", 1, 3, 1, 2)}

\* The scripts of the library whose enumeration is studied: every list of
\* descriptors with start <= end and distinct names.
EnumScripts ==
    {CadScript("tests", "enum", "1.0.0", "cadquery", params, NoEngineConfig) :
        params \in {ps \in UNION {[1 .. n -> EnumParams] : n \in 1 .. MaxParams} :
                       /\ \A i, j \in DOMAIN ps : i # j => ps[i].name # ps[j].name
                       /\ \A i \in DOMAIN ps :
                             ps[i].type = "number" => ps[i].start <= ps[i].end}}

\* No call made yet.
NoCall == [called |-> FALSE, raised |-> FALSE, param |-> 0, returned |-> <<>>]
\* A call that returned, and a call that raised AttributeError.
Returned(i, x) == [called |-> TRUE, raised |-> FALSE, param |-> i, returned |-> x]
Raised(i) == [called |-> TRUE, raised |-> TRUE, param |-> i, returned |-> <<>>]

\* What was called on the script so far: the last call of values() on a
\* parameter, the call of get_num_variants(), and the generator made by
\* iterate_possible_model_params_dicts(): the <<hash, param_values>> pairs it
\* has yielded and whether it is "new", "running", "exhausted" or "raised".
NewEnumeration ==
    [values |-> NoCall, num_variants |-> NoCall, yielded |-> <<>>, iter |-> "new"]

InitEnum ==
    /\ script \in EnumScripts
    /\ available_scriptengine_workers = {"cadquery", "archiyou"}
    /\ disk = [d \in CacheDirs |-> EmptyDir]
    /\ tasks = <<>>
    /\ batches = <<>>
    /\ last = Step("init", 0, NoResponse)
    /\ script_requests = <<>>
    /\ enumeration = NewEnumeration
    /\ library = NoLibrary
    /\ publish_jobs = <<>>

\* script.params[i].values()
ValuesCall(i) ==
    /\ enumeration' = [enumeration EXCEPT !.values =
                          IF has_values(script.params[i])
                          THEN Returned(i, values(script.params[i]))
                          ELSE Raised(i)]
    /\ last' = Step("values", 0, NoResponse)
    /\ UNCHANGED <<script, available_scriptengine_workers, script_requests, library, publish_jobs, disk, tasks, batches>>

\* script.get_num_variants(): the loop calls values() on every parameter.
GetNumVariants ==
    /\ ~enumeration.num_variants.called
    /\ enumeration' = [enumeration EXCEPT !.num_variants =
                          IF \A i \in DOMAIN script.params : has_values(script.params[i])
                          THEN Returned(0, get_num_variants(script))
                          ELSE Raised(0)]
    /\ last' = Step("get_num_variants", 0, NoResponse)
    /\ UNCHANGED <<script, available_scriptengine_workers, script_requests, library, publish_jobs, disk, tasks, batches>>

\* next() on the generator of iterate_possible_model_params_dicts(): the
\* first next() collects values() of every parameter, each next() hashes the
\* next combination and yields it, the one after the last ends the generator.
IterNext ==
    /\ enumeration.iter \in {"new", "running"}
    /\ enumeration' =
          IF \E i \in DOMAIN script.params : ~has_values(script.params[i])
          THEN [enumeration EXCEPT !.iter = "raised"]
          ELSE LET dicts == iterate_possible_model_params_dicts(script)
                   k == Len(enumeration.yielded) + 1
               IN  IF k > Len(dicts)
                   THEN [enumeration EXCEPT !.iter = "exhausted"]
                   ELSE [enumeration EXCEPT
                            !.iter = "running",
                            !.yielded = Append(@, <<hash(script, dicts[k]), dicts[k]>>)]
    /\ last' = Step("next", 0, NoResponse)
    /\ UNCHANGED <<script, available_scriptengine_workers, script_requests, library, publish_jobs, disk, tasks, batches>>

NextEnum ==
    \/ \E i \in DOMAIN script.params : ValuesCall(i)
    \/ GetNumVariants
    \/ IterNext

SpecEnum == InitEnum /\ [][NextEnum]_vars

\* Python's False and True as parameter values.
BoolV(b) == [t |-> "bool", n |-> IF b THEN 1 ELSE 0, s |-> ""]

\* Whether the script config switches the parameter off.
Disabled(p) == "enabled" \in DOMAIN p /\ ~p.enabled

\* start, start + step, ... up to the greatest grid value <= end.
GridUpTo(start, end, step) ==
    [k \in 1 .. ((end - start) \div step) + 1 |-> IntV(start + (k - 1) * step)]

\* The ordered domain the parameter model gives a descriptor: the grid of a
\* number, the default alone of a number that is switched off, false and
\* true, or the options.
ParamDomain(p) ==
    CASE p.type = "number" /\ Disabled(p) -> <<IntV(p.default)>>
      [] p.type = "number" /\ ~Disabled(p) -> GridUpTo(p.start, p.end, p.step)
      [] p.type = "boolean" -> <<BoolV(FALSE), BoolV(TRUE)>>
      [] p.type = "options" -> [i \in DOMAIN p.options |-> StrV(p.options[i])]

RECURSIVE ProductOfDomainSizes(_)
ProductOfDomainSizes(params) ==
    IF params = <<>> THEN 1
    ELSE Len(ParamDomain(params[1])) * ProductOfDomainSizes(Tail(params))

\* The generator has ended, by exhaustion or by an exception.
EnumerationOver == enumeration.iter \in {"exhausted", "raised"}

\* C17: for a script whose parameters are all iterable the enumerator yields
\* exactly get_num_variants() tuples, that number is the product of the
\* sizes of the parameters' domains, and any two distinct yielded tuples
\* have distinct fingerprints.
C17_EnumeratorYieldsProductDistinctly ==
    (is_cachable(script) /\ EnumerationOver /\ enumeration.num_variants.called) =>
        /\ enumeration.iter = "exhausted"
        /\ ~enumeration.num_variants.raised
        /\ Len(enumeration.yielded) = enumeration.num_variants.returned
        /\ enumeration.num_variants.returned = ProductOfDomainSizes(script.params)
        /\ \A j, k \in DOMAIN enumeration.yielded :
              enumeration.yielded[j][2] # enumeration.yielded[k][2]
                  => enumeration.yielded[j][1] # enumeration.yielded[k][1]

\* C18: for a number parameter with integers start <= end and step > 0,
\* values() returns start, start + step, ... in increasing order up to the
\* greatest grid value <= end; no value returned exceeds end.
C18_NumberValuesStopAtEnd ==
    LET call == enumeration.values
    IN  (call.called /\ script.params[call.param].type = "number") =>
            LET p == script.params[call.param]
            IN  /\ ~call.raised
                /\ call.returned = GridUpTo(p.start, p.end, p.step)
                /\ \A k \in DOMAIN call.returned : call.returned[k].n <= p.end

\* The variants of the script counted over every parameter but the i-th.
RECURSIVE VariantsWithout(_, _, _)
VariantsWithout(s, i, j) ==
    IF j > Len(s.params) THEN 1
    ELSE (IF j = i THEN 1 ELSE Len(values(s.params[j]))) * VariantsWithout(s, i, j + 1)

\* The values the i-th parameter takes in the tuples yielded.
YieldedValues(i) == {enumeration.yielded[k][2][i][2] : k \in DOMAIN enumeration.yielded}

\* C19: a boolean parameter is enumerable with the domain [false, true]: in
\* a cachable script it contributes a factor 2 to num_variants and both
\* values appear in the enumerated tuples.
C19_BooleanContributesTwoValues ==
    \A i \in DOMAIN script.params :
        (script.params[i].type = "boolean" /\ is_cachable(script)) =>
            /\ enumeration.num_variants.called =>
                  /\ ~enumeration.num_variants.raised
                  /\ enumeration.num_variants.returned = 2 * VariantsWithout(script, i, 1)
            /\ EnumerationOver =>
                  /\ enumeration.iter = "exhausted"
                  /\ YieldedValues(i) = {BoolV(FALSE), BoolV(TRUE)}

\* C20: a number parameter that is switched off has the one-element domain
\* {default}: it contributes a factor 1 to num_variants and every tuple
\* enumerated carries its default.
C20_DisabledNumberYieldsDefault ==
    \A i \in DOMAIN script.params :
        (script.params[i].type = "number" /\ Disabled(script.params[i])) =>
            /\ enumeration.num_variants.called =>
                  /\ ~enumeration.num_variants.raised
                  /\ enumeration.num_variants.returned = VariantsWithout(script, i, 1)
            /\ \A k \in DOMAIN enumeration.yielded :
                  enumeration.yielded[k][2][i][2] = IntV(script.params[i].default)

----------------------------------------------------------------------------
(* Batch statistics and the end of a batch                                 *)

\* A running server process that serves HTTP requests, one request per
\* fingerprint at a time, and precomputes the cache of the script.
NextBatch ==
    \/ \E req \in ClientRequests(script) : HandleSeq(req)
    \/ \E t \in DOMAIN tasks : TimerWins(t)
    \/ \E t \in DOMAIN tasks : ResultWins(t)
    \/ \E t \in DOMAIN tasks : ResultRaises(t)
    \/ \E t \in DOMAIN tasks : BothDone(t)
    \/ \E t \in DOMAIN tasks : Monitor(t)
    \/ \E t \in DOMAIN tasks : \E b \in WorkerResults(script) : WorkerReturns(t, b)
    \/ \E t \in DOMAIN tasks : WorkerRaises(t)
    \/ BatchStart
    \/ \E b \in DOMAIN batches : BatchSubmit(b)
    \/ \E b \in DOMAIN batches : BatchHandle(b)
    \/ \E b \in DOMAIN batches : BatchRaises(b)

SpecBatch == Init /\ [][NextBatch]_vars

\* This step handles the result of a task of batch b that has returned.
BatchTaskCompletes(b) ==
    /\ last'.op = "batch_handle"
    /\ tasks[last'.task].request.batch_id = b

\* C21: BatchStats.done of a batch starts at 0, only increases, increases by
\* exactly one per completed task of the batch, by nothing else, and never
\* exceeds BatchStats.tasks; the result of an HTTP request (no batch_id)
\* changes no BatchStats.
C21_DoneCountsCompletedBatchTasks ==
    [][/\ \A b \in DOMAIN batches' \ DOMAIN batches : batches'[b].stats.done = 0
       /\ \A b \in DOMAIN batches :
             /\ b \in DOMAIN batches'
             /\ batches'[b].stats.tasks = batches[b].stats.tasks
             /\ batches'[b].stats.done =
                   IF BatchTaskCompletes(b) THEN batches[b].stats.done + 1
                   ELSE batches[b].stats.done
             /\ batches'[b].stats.done <= batches'[b].stats.tasks
       /\ last'.op \in {"result_wins", "monitor", "cache_hit"} =>
             \A b \in DOMAIN batches : batches'[b].stats = batches[b].stats]_vars

\* C21 witness: a batch of two tasks has just counted its first completed
\* task, after the result of an HTTP request was checked in: done is 1.
C21_OneDoneAfterHttpCommit ==
    /\ last.op = "batch_handle"
    /\ \E b \in DOMAIN batches :
          /\ tasks[last.task].request.batch_id = b
          /\ batches[b].stats.done = 1
          /\ batches[b].stats.tasks = 2
    /\ \E t \in DOMAIN tasks :
          tasks[t].request.batch_id = 0 /\ tasks[t].commits = 1

\* C22: the end-of-batch action of a batch is invoked exactly once, in the
\* step whose completion makes done equal to tasks, and never while done is
\* less than tasks.
C22_EndOfBatchOnceAtLastCompletion ==
    [][/\ \A b \in DOMAIN batches' \ DOMAIN batches : batches'[b].ended = 0
       /\ \A b \in DOMAIN batches :
             /\ batches'[b].ended =
                   IF /\ batches'[b].stats.done = batches'[b].stats.tasks
                      /\ batches[b].stats.done < batches[b].stats.tasks
                   THEN batches[b].ended + 1
                   ELSE batches[b].ended
             /\ batches'[b].ended <= 1
             /\ batches'[b].stats.done < batches'[b].stats.tasks => batches'[b].ended = 0]_vars

\* C22 witness: the second and last task of a batch of two has just been
\* handled, and the end of the batch was handled once.
C22_BatchOfTwoEnded ==
    /\ last.op = "batch_handle"
    /\ \E b \in DOMAIN batches :
          /\ batches[b].stats.tasks = 2
          /\ batches[b].stats.done = 2
          /\ batches[b].ended = 1

----------------------------------------------------------------------------
(* A request that finds the marker of a computing job                      *)

\* The requests whose handle call, in the given state of the cache, answers
\* with the given redirect to a computing job whose marker is in the
\* request's cache directory.
InFlightRequestsAnswered(d, response) ==
    {req \in ClientRequests(script) :
        LET r == _req_to_script_request(script, req)
        IN  \E f \in d[_get_script_version_cached_model_dir(script, r)].files :
               /\ IsComputeFile(f)
               /\ response = [go_to_computing_job_url(script, r, f[1]) EXCEPT !.body = {}]}

\* C30: a request that finds an in-flight marker for its fingerprint leaves
\* the marker, the rest of the cache directories, the enqueued tasks and the
\* batch statistics as they were, and the task id in its redirect URL is the
\* task id in the name of a marker in its cache directory.
C30_InFlightRequestChangesNothing ==
    [][last'.op = "in_flight" =>
          /\ disk' = disk
          /\ tasks' = tasks
          /\ batches' = batches
          /\ InFlightRequestsAnswered(disk, last'.response) # {}]_vars

\* C30 witness: a request was just redirected to the job of a task that is
\* still with the worker, its marker in the cache directory, while a batch
\* has statistics.
C30_RedirectedToLiveJob ==
    /\ last.op = "in_flight"
    /\ \E t \in DOMAIN tasks :
          /\ Alive(t)
          /\ tasks[t].watch = "monitor"
          /\ ComputeFile(TaskId(t)) \in disk[DirOf(t)].files
          /\ InFlightRequestsAnswered(disk, last.response) # {}
    /\ batches # <<>>

----------------------------------------------------------------------------
(* The startup sweep on a library tree left by an earlier process          *)

\* The files an earlier process may have left in a fingerprint directory:
\* markers of two tasks, result.json, a model file and an auxiliary file.
LeftFiles ==
    {ComputeFile("1"), ComputeFile("2"), RESULT_JSON, <<"result", ".step">>, <<"spec", ".pdf">>}

\* A result.json an earlier process checked in for directory d of script s.
LeftResult(s, d) ==
    CadScriptResult(
        CHOOSE r \in {_req_to_script_request(s, req) : req \in ClientRequests(s)} :
            _get_script_version_cached_model_dir(s, r) = d,
        ModelResult(TRUE, {<<"step", "STEP">>, <<"stl", "b64(STL)">>}, {}, <<>>))

\* The states an earlier process may have left directory d of script s in.
LeftDirs(s, d) ==
    {[files |-> fs, json |-> IF RESULT_JSON \in fs THEN {LeftResult(s, d)} ELSE {}] :
        fs \in SUBSET LeftFiles}

\* The fingerprint directories of the requests clients send for script s.
RequestedDirs(s) ==
    {_get_script_version_cached_model_dir(s, _req_to_script_request(s, req)) :
        req \in ClientRequests(s)}

\* The server starts on a tree in which an earlier process left files in up
\* to two fingerprint directories of the script, a marker among them.
InitSweep ==
    /\ script \in Scripts
    /\ available_scriptengine_workers \in WorkerPools(script)
    /\ \E d1, d2 \in RequestedDirs(script) :
          \E x1 \in LeftDirs(script, d1), x2 \in LeftDirs(script, d2) :
             /\ \E f \in x1.files \cup x2.files : IsComputeFile(f)
             /\ disk = [d \in CacheDirs |-> IF d = d1 THEN x1 ELSE IF d = d2 THEN x2 ELSE EmptyDir]
    /\ tasks = <<>>
    /\ batches = <<>>
    /\ last = Step("init", 0, NoResponse)
    /\ script_requests = <<>>
    /\ enumeration = <<>>
    /\ library = NoLibrary
    /\ publish_jobs = <<>>

NextSweep == Restart

SpecSweep == InitSweep /\ [][NextSweep]_vars

----------------------------------------------------------------------------
(* The catalog under load, reload and add                                  *)

\* The most version directories a library tree starts with.
MaxDirs == 2
\* The most scripts added to a library.
MaxAdds == 1

GearParams == <<ParamConfigNumber("size", 1, 2, 1)>>
GearPresets == {<<"small", <<"size", 1>>>>}
GearCode == "result = gear(size)"

\* The script records handed to add_script: two organisations with a script
\* of the same name, two versions, the three engines, with and without the
\* id sent along.
AddedScripts ==
    {CadScriptRecord(id, org, "gear", v, NoneV, e, GearCode, GearParams, GearPresets) :
        org \in {"acme", "bolt"}, v \in {"2.0.0", "10.0.0"},
        e \in {"cadquery", "archiyou", "openscad"},
        id \in {NoneV}} \cup
    {CadScriptRecord(org \o "/gear/" \o v, org, "gear", v, NoneV, "cadquery",
                     GearCode, GearParams, GearPresets) :
        org \in {"acme", "bolt"}, v \in {"2.0.0", "10.0.0"}}

\* The sidecar of acme/gear as write_script writes it.
GearSidecar ==
    Sidecar(sidecar_json(CadScriptRecord("acme/gear/1.0.0", "acme", "gear", "1.0.0", NoneV,
                                         "cadquery", GearCode, GearParams, GearPresets)))

\* The version directories a library tree may hold at startup: those
\* write_script wrote for a cadquery or archiyou script, and directories put
\* there by hand: without sidecar, with a sidecar that is not JSON, with two
\* sidecars, with a version that is no semver, with an upper-case org.
TreeDirs ==
    UNION {write_script({}, s) : s \in {x \in AddedScripts :
                                          x.cad_engine # "openscad" /\ x.id # NoneV}}
    \cup {VersionDir(<<"acme", "gear", "1.0.0">>, "py", GearCode, sidecars) :
             sidecars \in {<<>>, <<Malformed>>, <<GearSidecar, GearSidecar>>}}
    \cup {VersionDir(<<"acme", "gear", "draft">>, "py", GearCode, <<GearSidecar>>),
          VersionDir(<<"Acme", "gear", "1.0.0">>, "js", GearCode, <<GearSidecar>>)}

\* The library trees at startup: up to MaxDirs version directories.
Trees ==
    {tree \in SUBSET TreeDirs :
        /\ Cardinality(tree) <= MaxDirs
        /\ \A a, b \in tree : a.path = b.path => a = b}

\* What the last catalog step did, and the script it was given.
CatalogStep(op, s) == [op |-> op, task |-> 0, response |-> NoResponse, record |-> s]

InitCatalog ==
    /\ script \in {ScriptBox}
    /\ available_scriptengine_workers = {"cadquery", "archiyou"}
    /\ disk = [d \in CacheDirs |-> EmptyDir]
    /\ tasks = <<>>
    /\ batches = <<>>
    /\ last = Step("init", 0, NoResponse)
    /\ script_requests = <<>>
    /\ enumeration = <<>>
    /\ library \in {Library(tree, FALSE) : tree \in Trees}
    /\ publish_jobs = <<>>

\* CadLibrary.__init__: load, order, build the search index. A load that
\* raises ends the constructor: no library, the process does not start.
LibraryConstruct ==
    /\ ~library.constructed
    /\ \E order \in GlobOrders(library.tree) :
          IF _load_scripts_dir(order, <<>>).raised
          THEN /\ last' = CatalogStep("construct_raises", NoneV)
               /\ UNCHANGED library
          ELSE /\ library' = [reload(library, order) EXCEPT
                                 !.index = build_index(reload(library, order).latest_scripts),
                                 !.constructed = TRUE]
               /\ last' = CatalogStep("construct", NoneV)
    /\ UNCHANGED <<script, available_scriptengine_workers, script_requests, enumeration, publish_jobs, disk, tasks, batches>>

\* CadLibrary.reload
LibraryReload ==
    /\ library.constructed
    /\ \E order \in GlobOrders(library.tree) :
          /\ library' = reload(library, order)
          /\ last' = CatalogStep(IF _load_scripts_dir(order, <<>>).raised
                                 THEN "reload_raises" ELSE "reload", NoneV)
    /\ UNCHANGED <<script, available_scriptengine_workers, script_requests, enumeration, publish_jobs, disk, tasks, batches>>

\* CadLibrary.add_script(s)
LibraryAdd(s) ==
    /\ library.constructed
    /\ Cardinality(library.tree) < MaxDirs + MaxAdds
    /\ library' = add_script(library, s).library
    /\ last' = CatalogStep(IF add_script(library, s).ok
                           THEN "add_script" ELSE "add_script_exists", s)
    /\ UNCHANGED <<script, available_scriptengine_workers, script_requests, enumeration, publish_jobs, disk, tasks, batches>>

NextCatalog ==
    \/ LibraryConstruct
    \/ LibraryReload
    \/ \E s \in AddedScripts : LibraryAdd(s)

SpecCatalog == InitCatalog /\ [][NextCatalog]_vars

\* The records of a namespace in CadLibrary.scripts.
NamespaceRecords(lib, ns) ==
    {lib.scripts[i] : i \in {j \in DOMAIN lib.scripts : lib.scripts[j].namespace = ns}}

\* A list of version strings in ascending semver order.
VersionsAscending(vs) ==
    \A i, j \in DOMAIN vs : i < j => ~Version_lt(Version_parse(vs[j]), Version_parse(vs[i]))

\* The index entries of namespace ns are those of its own records: the
\* versions of exactly these records in ascending order, and as latest the
\* record of the namespace with the greatest version.
IndexedPerNamespace(lib, ns) ==
    /\ ns \in DOMAIN lib.script_versions
    /\ ns \in DOMAIN lib.latest_scripts
    /\ {lib.script_versions[ns][i] : i \in DOMAIN lib.script_versions[ns]}
           = {s.version : s \in NamespaceRecords(lib, ns)}
    /\ Len(lib.script_versions[ns]) = Cardinality(NamespaceRecords(lib, ns))
    /\ VersionsAscending(lib.script_versions[ns])
    /\ lib.latest_scripts[ns] \in NamespaceRecords(lib, ns)
    /\ \A s \in NamespaceRecords(lib, ns) :
          ~Version_lt(Version_parse(lib.latest_scripts[ns].version), Version_parse(s.version))

\* C25: after a successful add(record), get(org, name, version) returns the
\* record, versions(org, name) contains its version in semver order, the
\* latest pointer of the namespace is its record with the greatest version,
\* and the search index holds exactly the latest record of each namespace.
C25_AddedRecordIsIndexed ==
    last.op = "add_script" =>
        LET r == last.record
            vs == get_script_versions(library, r.namespace)
        IN  /\ get_script_request(library, r.org, r.name, r.version) = {r}
            /\ \E i \in DOMAIN vs : vs[i] = r.version
            /\ VersionsAscending(vs)
            /\ get_script_request(library, r.org, r.name, NoneV) \subseteq
                   NamespaceRecords(library, r.namespace)
            /\ \A l \in get_script_request(library, r.org, r.name, NoneV) :
                  \A s \in NamespaceRecords(library, r.namespace) :
                     ~Version_lt(Version_parse(l.version), Version_parse(s.version))
            /\ library.index =
                   {CHOOSE l \in NamespaceRecords(library, ns) :
                        \A s \in NamespaceRecords(library, ns) :
                           ~Version_lt(Version_parse(l.version), Version_parse(s.version)) :
                    ns \in Namespaces(library.scripts)}

\* C26: after every load, reload and add, for every namespace of the catalog
\* versions(org, name) lists exactly the versions of the records of that
\* namespace in ascending semver order and latest[org/name] is the record of
\* that namespace with the greatest version, also when two organisations
\* have a script of the same name.
C26_IndexesArePerNamespace ==
    last.op \in {"construct", "reload", "add_script"} =>
        \A ns \in Namespaces(library.scripts) : IndexedPerNamespace(library, ns)

\* C28: loading never fails as a whole: a directory with a malformed sidecar,
\* no sidecar, several sidecars or an invalid version gives a record or is
\* omitted, and every other script of the tree is loaded.
C28_LoadNeverFailsAsAWhole ==
    /\ last.op \notin {"construct_raises", "reload_raises"}
    /\ last.op \in {"construct", "reload"} =>
          \A dir \in library.tree :
             (/\ ~Version_invalid(dir.path[3])
              /\ Len(dir.sidecars) = 1
              /\ ~dir.sidecars[1].malformed)
                => \E i \in DOMAIN library.scripts :
                      /\ library.scripts[i].org = lower(dir.path[1])
                      /\ library.scripts[i].name = lower(dir.path[2])
                      /\ library.scripts[i].version = dir.path[3]

\* C29: for every script record accepted by add, reloading the library from
\* disk yields a record equal to the added one in every field (the records
\* of the model hold no timestamps), for each engine.
C29_ReloadYieldsAddedRecord ==
    last.op = "add_script" =>
        \A order \in GlobOrders(library.tree) :
           \E i \in DOMAIN reload(library, order).scripts :
              reload(library, order).scripts[i] = last.record

----------------------------------------------------------------------------
(* Admin: publish a script and precompute its cache                        *)

\* acme/gear: a cadquery script with one iterable number parameter.
ScriptGear ==
    CadScript("acme", "gear", "2.0.0", "cadquery", GearParams, NoEngineConfig)
\* acme/sign: a cadquery script with a text parameter (not iterable).
ScriptSign ==
    CadScript("acme", "sign", "2.0.0", "cadquery",
              <<ParamConfigText("label")>>, NoEngineConfig)

\* The scripts sent to /admin/publish.
PublishScripts == {ScriptGear, ScriptSign}

\* Admin.SCRIPT_ORG_MIN_CHARS, SCRIPT_NAME_MIN_CHARS, SCRIPT_CODE_MIN_CHARS
SCRIPT_ORG_MIN_CHARS == 4
SCRIPT_NAME_MIN_CHARS == 4
SCRIPT_CODE_MIN_CHARS == 10

\* PublishRequest: script is a set, empty for None.
PublishRequest(script_, pre_calculate) == [script |-> script_, pre_calculate |-> pre_calculate]

\* The CadScript of a request body for script s with the given code.
PublishedRecord(s, code) ==
    CadScriptRecord(NoneV, s.org, s.name, s.version, NoneV, s.cad_engine, code, s.params, {})

\* The bodies sent to /admin/publish for script s: the script with either of
\* two codes, with an org, a name or a code that is too short, without code,
\* and a body without script.
PublishRequests(s) ==
    {PublishRequest({r}, pre) :
        pre \in BOOLEAN,
        r \in {PublishedRecord(s, GearCode),
               PublishedRecord(s, "result = cog(size, 2)"),
               PublishedRecord([s EXCEPT !.org = "ab"], GearCode),
               PublishedRecord([s EXCEPT !.name = "g"], GearCode),
               PublishedRecord(s, NoneV),
               PublishedRecord(s, "x = 1")}}
    \cup {PublishRequest({}, FALSE)}

\* Admin._check_publish_request: the detail of the HTTPException(400) it
\* raises, "" when it returns True.
_check_publish_request(req) ==
    IF req.script = {} THEN "Please supply a script to be published"
    ELSE LET s == CHOOSE x \in req.script : TRUE
         IN  IF Len(s.org) = 0 \/ Len(s.name) = 0
             THEN "Make sure your script has a valid namespace"
             ELSE IF Len(s.org) < SCRIPT_ORG_MIN_CHARS
             THEN "The org field of your script is too short"
             ELSE IF Len(s.name) < SCRIPT_NAME_MIN_CHARS
             THEN "The name field of your script is too short"
             ELSE IF s.code = NoneV \/ Len(s.code) < SCRIPT_CODE_MIN_CHARS
             THEN "Your script contains no field code or too little code"
             ELSE ""

\* The version directory of script s as an earlier publish wrote it.
PublishedDir(s) == write_script({}, PublishedRecord(s, "result = old(size)"))

\* The server runs with the library constructed on a tree that is empty or
\* holds the script version already; whether the library was given the
\* api_generator is open (nothing in main.py calls set_api_generator).
InitPublish ==
    /\ script \in PublishScripts
    /\ available_scriptengine_workers = {"cadquery", "archiyou"}
    /\ disk = [d \in ScriptCacheDirs(script) |-> EmptyDir]
    /\ tasks = <<>>
    /\ batches = <<>>
    /\ last = Step("init", 0, NoResponse)
    /\ script_requests = <<>>
    /\ enumeration = <<>>
    /\ \E tree \in {{}, PublishedDir(script)}, api_generator \in BOOLEAN :
       \E order \in GlobOrders(tree) :
          library = [reload(Library(tree, api_generator), order) EXCEPT
                        !.index = build_index(reload(Library(tree, api_generator), order).latest_scripts),
                        !.constructed = TRUE]
    /\ publish_jobs = <<>>

\* Admin._handle_publish_request: the checks, add_script, the batch coroutine
\* created with asyncio.create_task (it starts in a later step) and the
\* PublishJob returned.
Publish(req) ==
    IF _check_publish_request(req) # ""
    THEN /\ last' = Step("publish_rejected", 0, HTTPException(400, <<_check_publish_request(req)>>))
         /\ UNCHANGED <<script, available_scriptengine_workers, script_requests, enumeration, library, publish_jobs, disk, tasks, batches>>
    ELSE LET s == CHOOSE x \in req.script : TRUE
             added == add_script(library, s)
         IN  IF ~added.ok
             THEN /\ library' = added.library
                  /\ last' = Step("publish_rejected", 0,
                                  HTTPException(400, <<"Cannot publish script. It already exists.">>))
                  /\ UNCHANGED <<script, available_scriptengine_workers, script_requests, enumeration, publish_jobs, disk, tasks, batches>>
             ELSE /\ library' = added.library
                  /\ publish_jobs' = Append(publish_jobs, PublishJob(s, "computing"))
                  /\ last' = Step("publish", 0, JsonResponse(PublishJob(s, "computing")))
                  /\ UNCHANGED <<script, available_scriptengine_workers, script_requests, enumeration, disk, tasks, batches>>

\* compute_script_cache_async, created by the publish of job j, runs up to
\* its first await: a script that is not cachable makes it return None (no
\* statistics, on_done is not called); else the statistics of the batch are
\* created under the id of the job.
PublishBatchStart(j) ==
    /\ ~publish_jobs[j].started
    /\ IF is_cachable(script)
       THEN /\ batches' = Append(batches, Batch(get_num_variants(script)))
            /\ publish_jobs' = [publish_jobs EXCEPT ![j].started = TRUE,
                                                    ![j].batch = Len(batches) + 1]
       ELSE /\ publish_jobs' = [publish_jobs EXCEPT ![j].started = TRUE]
            /\ UNCHANGED batches
    /\ last' = Step("publish_batch_start", 0, NoResponse)
    /\ UNCHANGED <<script, available_scriptengine_workers, script_requests, enumeration, library, disk, tasks>>

\* Admin._get_publish_job: the job with the statistics of its batch; the
\* empty set stands for stats None.
_get_publish_job(j) ==
    [publish_jobs[j] EXCEPT !.batch =
        IF publish_jobs[j].batch = 0 THEN {} ELSE {batches[publish_jobs[j].batch].stats}]

\* The publish endpoint and the batch it starts, with workers that return a
\* result for every task.
NextPublish ==
    \/ \E req \in PublishRequests(script) : Publish(req)
    \/ \E j \in DOMAIN publish_jobs : PublishBatchStart(j)
    \/ \E b \in DOMAIN batches : BatchSubmit(b)
    \/ \E b \in DOMAIN batches : BatchHandle(b)
    \/ \E t \in DOMAIN tasks : \E b \in WorkerResults(script) : WorkerReturns(t, b)

SpecPublish == InitPublish /\ [][NextPublish]_vars

\* The event loop runs the batch coroutine, and every enqueued task
\* eventually returns.
SpecPublishLive ==
    /\ InitPublish
    /\ [][NextPublish]_vars
    /\ WF_vars(\E j \in DOMAIN publish_jobs : PublishBatchStart(j))
    /\ WF_vars(\E b \in DOMAIN batches : BatchSubmit(b))
    /\ WF_vars(\E b \in DOMAIN batches : BatchHandle(b))
    /\ WF_vars(\E t \in DOMAIN tasks : \E b \in WorkerResults(script) : WorkerReturns(t, b))

\* C23: every accepted publish request returns a PublishJob with status
\* computing that eventually reaches status success with stats.done equal to
\* stats.tasks, after which the endpoints of the new version are registered,
\* provided every enqueued worker task eventually returns.
C23_AcceptedPublishJobSucceeds ==
    /\ [][last'.op = "publish" =>
             /\ Len(publish_jobs') = Len(publish_jobs) + 1
             /\ publish_jobs'[Len(publish_jobs')].status = "computing"]_vars
    /\ \A j \in 1 .. MaxBatches :
          (j \in DOMAIN publish_jobs) ~>
              (/\ j \in DOMAIN publish_jobs
               /\ publish_jobs[j].status = "success"
               /\ \E stats \in _get_publish_job(j).batch : stats.done = stats.tasks
               /\ <<script.org, script.name, script.version>> \in library.endpoints)

\* C24: a publish request rejected with 400 leaves the catalog indexes, the
\* library files on disk, the publish-job table and the batch statistics
\* unchanged and enqueues no worker task.
C24_RejectedPublishChangesNothing ==
    [][(last'.op = "publish_rejected" /\ last'.response.code = 400) =>
          /\ library' = library
          /\ publish_jobs' = publish_jobs
          /\ batches' = batches
          /\ tasks' = tasks
          /\ disk' = disk]_vars

\* C24 witness: a publish was just rejected with 400 because the script
\* version is in the library, which holds its files, an accepted job and the
\* statistics of its batch.
C24_RejectedBesideRunningJob ==
    /\ last.op = "publish_rejected"
    /\ last.response.code = 400
    /\ last.response.errors = <<"Cannot publish script. It already exists.">>
    /\ library.tree # {}
    /\ \E j \in DOMAIN publish_jobs :
          /\ publish_jobs[j].status = "computing"
          /\ publish_jobs[j].batch # 0
          /\ batches[publish_jobs[j].batch].stats.done = 1

----------------------------------------------------------------------------
(* The dispatcher and the life of a worker task                            *)

\* C31: no dispatcher action aborts a remote worker task: no task leaves the
\* queue, and the state of a task changes only when the worker itself ends
\* it (SENT to SUCCESS or FAILURE), whatever the race did in between.
C31_OnlyTheWorkerEndsATask ==
    [][/\ Len(tasks') >= Len(tasks)
       /\ \A t \in DOMAIN tasks :
             /\ tasks'[t].request = tasks[t].request
             /\ tasks'[t].status # tasks[t].status =>
                   /\ last'.op \in {"worker_returns", "worker_raises"}
                   /\ last'.task = t
                   /\ tasks[t].status = "SENT"
                   /\ tasks'[t].status \in {"SUCCESS", "FAILURE"}]_vars

\* C31 witness: the timer has just won, the result wait is cancelled, and the
\* task is still alive at the broker, watched by the detached monitor.
C31_AliveAfterTimerWon ==
    /\ last.op = "timer_wins"
    /\ tasks[last.task].status = "SENT"
    /\ tasks[last.task].watch = "monitor"

----------------------------------------------------------------------------
(* The views of a script version: params, presets                          *)

ToothParams == <<ParamConfigNumber("teeth", 1, 2, 1)>>
ToothPresets == {<<"few", <<"teeth", 1>>>>}

\* The versions of acme/gear a library holds or is given: three versions,
\* each declaring the parameter size or the parameter teeth.
ViewScripts ==
    {CadScriptRecord("acme/gear/" \o v, "acme", "gear", v, NoneV, "cadquery", GearCode,
                     pp[1], pp[2]) :
        v \in {"1.0.0", "2.0.0", "10.0.0"},
        pp \in {<<GearParams, GearPresets>>, <<ToothParams, ToothPresets>>}}

\* The library trees at startup: one version directory or more, written by
\* write_script.
ViewTrees ==
    {tree \in SUBSET UNION {write_script({}, s) : s \in ViewScripts} :
        /\ tree # {}
        /\ Cardinality(tree) <= MaxDirs
        /\ \A a, b \in tree : a.path = b.path => a = b}

\* ModelRequestHandler.handle up to the special entities versions, params
\* and presets: the script is looked up by org and name only; the answer is
\* a set, empty for None.
handle_special_entity(lib, req) ==
    LET found == get_script_request(lib, req.script_org, req.script_name, NoneV)
    IN  IF found = {} THEN {}
        ELSE LET s == CHOOSE x \in found : TRUE
             IN  CASE req.script_special_requested_entity = "versions" ->
                          {get_script_versions(lib, s.namespace)}
                   [] req.script_special_requested_entity = "params" -> {s.params}
                   [] req.script_special_requested_entity = "presets" -> {s.param_presets}

\* What a view step did: the request the endpoint function built and the
\* answer of handle.
ViewStep(req, answer) ==
    [op |-> "view:" \o req.script_special_requested_entity, task |-> 0,
     response |-> ViewResponse, request |-> req, view |-> answer]

\* main.py with the library constructed: generate_endpoints registers the
\* endpoints of every script version loaded.
InitViews ==
    /\ script \in {ScriptBox}
    /\ available_scriptengine_workers = {"cadquery", "archiyou"}
    /\ disk = [d \in CacheDirs |-> EmptyDir]
    /\ tasks = <<>>
    /\ batches = <<>>
    /\ last = Step("init", 0, NoResponse)
    /\ script_requests = <<>>
    /\ enumeration = <<>>
    /\ \E tree \in ViewTrees : \E order \in GlobOrders(tree) :
          library = [reload(Library(tree, FALSE), order) EXCEPT
                        !.index = build_index(reload(Library(tree, FALSE), order).latest_scripts),
                        !.endpoints = {dir.path : dir \in tree},
                        !.constructed = TRUE]
    /\ publish_jobs = <<>>

\* GET /{org}/{name}/{version}/params or /presets: get_model_get_params and
\* get_model_get_presets of the version endpoint, then handle.
HandleView(path, special) ==
    LET req == [script_org |-> path[1], script_name |-> path[2], script_version |-> path[3],
                script_special_requested_entity |-> special]
    IN  /\ path \in library.endpoints
        /\ last' = ViewStep(req, handle_special_entity(library, req))
        /\ UNCHANGED <<script, available_scriptengine_workers, script_requests, enumeration, library, publish_jobs, disk, tasks, batches>>

\* A running server whose library is read again and gains versions while
\* clients ask for the views of the versions served.
NextViews ==
    \/ \E path \in library.endpoints : \E special \in {"params", "presets"} :
          HandleView(path, special)
    \/ \E s \in ViewScripts : LibraryAdd(s)
    \/ LibraryReload

SpecViews == InitViews /\ [][NextViews]_vars

\* The record of the library with the org, name and version of a request.
RecordOfVersion(lib, req) ==
    {lib.scripts[i] : i \in {j \in DOMAIN lib.scripts :
        /\ lib.scripts[j].org = req.script_org
        /\ lib.scripts[j].name = req.script_name
        /\ lib.scripts[j].version = req.script_version}}

\* C32: a params or presets view requested for version v of a namespace
\* returns the parameters or presets of the record with exactly version v,
\* also when v is not the latest version and the versions declare different
\* parameters.
C32_ViewShowsRequestedVersion ==
    /\ last.op = "view:params" =>
          last.view = {s.params : s \in RecordOfVersion(library, last.request)}
    /\ last.op = "view:presets" =>
          last.view = {s.param_presets : s \in RecordOfVersion(library, last.request)}

----------------------------------------------------------------------------
(* CadLibrary.compute_script_cache: the synchronous precompute             *)

\* The batch compute_script_cache creates: the statistics under a new id and
\* one coroutine _submit_and_handle_compute_script_task per parameter dict,
\* all handed to asyncio.wait; no outer loop awaits them one by one (next 0,
\* no awaited task, no coroutine of compute_script_cache_async running).
SyncBatch(n) == [Batch(n) EXCEPT !.next = 0, !.running = FALSE]

\* The tasks of batch b whose coroutine still awaits the result.
AwaitedTasks(b) ==
    {t \in DOMAIN tasks : tasks[t].request.batch_id = b /\ tasks[t].watch = "batch"}

\* compute_script_cache(org, name) up to run_until_complete.
SyncBatchStart ==
    /\ Len(batches) < MaxBatches
    /\ is_cachable(script)
    /\ batches' = Append(batches, SyncBatch(get_num_variants(script)))
    /\ last' = Step("sync_batch_start", 0, NoResponse)
    /\ UNCHANGED <<script, available_scriptengine_workers, script_requests, enumeration, library, publish_jobs, disk, tasks>>

\* The event loop starts the coroutine of parameter dict k of batch b: it
\* runs up to the await in compute_script_request, after apply_async.
\* asyncio.wait keeps the coroutines in a set, so they start in any order.
SyncBatchSubmit(b, k) ==
    LET r == _make_cache_compute_script_request(
                 script, iterate_possible_model_params_dicts(script)[k], b)
    IN  /\ batches[b].next = 0
        /\ \A t \in DOMAIN tasks : tasks[t].request # r
        /\ Len(tasks) < MaxTasks
        /\ tasks' = Append(tasks, Task(r, "batch"))
        /\ last' = Step("sync_batch_submit", Len(tasks) + 1, NoResponse)
        /\ UNCHANGED <<script, available_scriptengine_workers, script_requests, enumeration, library, publish_jobs, disk, batches>>

\* The coroutine of task t resumes with the result: check-in, statistics,
\* end of batch. The task.get calls run one after the other in the thread of
\* sync_to_async(thread_sensitive=True), in the order the coroutines started.
SyncBatchHandle(t) ==
    LET b == tasks[t].request.batch_id
        checked_in == checkin_batch_stats(batches, ResultOf(t))
    IN  /\ tasks[t].watch = "batch"
        /\ b \in DOMAIN batches
        /\ batches[b].next = 0
        /\ \A x \in AwaitedTasks(b) : x >= t
        /\ tasks[t].status = "SUCCESS"
        /\ disk' = checkin_script_result_in_cache(disk, script, ResultOf(t))
        /\ tasks' = [tasks EXCEPT ![t].watch = "none", ![t].commits = @ + 1]
        /\ batches' = [checked_in EXCEPT
                         ![b].ended = IF checked_in[b].stats.done = checked_in[b].stats.tasks
                                      THEN @ + 1 ELSE @]
        /\ \E order \in GlobOrders(library.tree) :
              library' = IF checked_in[b].stats.done = checked_in[b].stats.tasks
                         THEN handle_end_of_batch(library, script, order)
                         ELSE library
        /\ last' = Step("sync_batch_handle", t, NoResponse)
        /\ UNCHANGED <<script, available_scriptengine_workers, script_requests, enumeration, publish_jobs>>

\* The task raised: task.get raises in the coroutine of task t, which ends.
SyncBatchRaises(t) ==
    LET b == tasks[t].request.batch_id
    IN  /\ tasks[t].watch = "batch"
        /\ b \in DOMAIN batches
        /\ batches[b].next = 0
        /\ \A x \in AwaitedTasks(b) : x >= t
        /\ tasks[t].status = "FAILURE"
        /\ tasks' = [tasks EXCEPT ![t].watch = "none"]
        /\ last' = Step("sync_batch_raises", t, NoResponse)
        /\ UNCHANGED <<script, available_scriptengine_workers, script_requests, enumeration, library, publish_jobs, disk, batches>>

\* The precompute of the cache of the script, by compute_script_cache_async
\* or by compute_script_cache, and the workers.
NextPrecompute ==
    \/ BatchStart
    \/ \E b \in DOMAIN batches : BatchSubmit(b)
    \/ \E b \in DOMAIN batches : BatchHandle(b)
    \/ \E b \in DOMAIN batches : BatchRaises(b)
    \/ SyncBatchStart
    \/ \E b \in DOMAIN batches :
          \E k \in DOMAIN iterate_possible_model_params_dicts(script) : SyncBatchSubmit(b, k)
    \/ \E t \in DOMAIN tasks : SyncBatchHandle(t)
    \/ \E t \in DOMAIN tasks : SyncBatchRaises(t)
    \/ \E t \in DOMAIN tasks : \E b \in WorkerResults(script) : WorkerReturns(t, b)
    \/ \E t \in DOMAIN tasks : WorkerRaises(t)

SpecPrecompute == Init /\ [][NextPrecompute]_vars

\* The tasks of batch b in the order they were enqueued.
BatchTasks(b) == SelectSeq([t \in DOMAIN tasks |-> t], LAMBDA t : tasks[t].request.batch_id = b)

\* C33: in a batch precompute the worker tasks are enqueued in the order of
\* the enumerator and one at a time: the i-th task enqueued for a batch
\* carries the i-th parameter dict, and at most one task of a batch is
\* enqueued without its result committed.
C33_BatchEnqueuesInOrderOneAtATime ==
    \A b \in DOMAIN batches :
        /\ Cardinality(AwaitedTasks(b)) <= 1
        /\ \A i \in DOMAIN BatchTasks(b) :
              tasks[BatchTasks(b)[i]].request.params =
                  iterate_possible_model_params_dicts(script)[i]

----------------------------------------------------------------------------
(* The SENT sentinel in the result backend (celery_tasks.update_sent_state) *)

\* A task whose message apply_async has published: the backend knows no
\* state for it (PENDING), the after_task_publish handler of the publisher
\* has not run yet (watch "publish"), and the worker has not taken the
\* message (delivered FALSE).
PublishedTask(r) ==
    [Task(r, "publish") EXCEPT !.status = "PENDING"] @@ [delivered |-> FALSE]

\* handle(req) up to the publish of the task message inside apply_async; a
\* request that is cached, in flight or without workers is answered as
\* Handle answers it.
HandlePublishes(req) ==
    LET r == _req_to_script_request(script, req)
    IN  IF \/ is_cached(disk, script, r)
           \/ check_script_model_computing_job(disk, script, r) # {""}
           \/ ~script_engine_has_workers(script, available_scriptengine_workers)
        THEN Handle(req)
        ELSE /\ Len(tasks) < MaxTasks
             /\ tasks' = Append(tasks, PublishedTask(r))
             /\ last' = Step("publish", Len(tasks) + 1, NoResponse)
             /\ UNCHANGED <<script, available_scriptengine_workers, script_requests, enumeration, library, publish_jobs, disk, batches>>

\* update_sent_state, the after_task_publish handler in the publisher:
\* backend.store_result(id, None, "SENT"), whatever the backend holds; then
\* apply_async returns and handle starts the race.
update_sent_state(task) == [task EXCEPT !.status = "SENT", !.result = {}, !.watch = "race"]

UpdateSentState(t) ==
    /\ tasks[t].watch = "publish"
    /\ tasks' = [tasks EXCEPT ![t] = update_sent_state(@)]
    /\ last' = Step("update_sent_state", t, NoResponse)
    /\ UNCHANGED <<script, available_scriptengine_workers, script_requests, enumeration, library, publish_jobs, disk, batches>>

\* The worker takes the message of task t, runs the script and stores the
\* result with state SUCCESS, or raises and stores FAILURE (task_track_started
\* is not set: the worker stores no STARTED).
WorkerStoresResult(t, b) ==
    /\ "delivered" \in DOMAIN tasks[t]
    /\ ~tasks[t].delivered
    /\ tasks' = [tasks EXCEPT ![t].status = "SUCCESS", ![t].result = {b}, ![t].delivered = TRUE]
    /\ last' = Step("worker_returns", t, NoResponse)
    /\ UNCHANGED <<script, available_scriptengine_workers, script_requests, enumeration, library, publish_jobs, disk, batches>>

WorkerStoresFailure(t) ==
    /\ "delivered" \in DOMAIN tasks[t]
    /\ ~tasks[t].delivered
    /\ tasks' = [tasks EXCEPT ![t].status = "FAILURE", ![t].delivered = TRUE]
    /\ last' = Step("worker_raises", t, NoResponse)
    /\ UNCHANGED <<script, available_scriptengine_workers, script_requests, enumeration, library, publish_jobs, disk, batches>>

\* The HTTP side with the publisher's handler and the worker as the two
\* processes they are; the clients ask for the full bundle without docs.
NextSent ==
    \/ \E req \in DefaultRequests(script) : HandlePublishes(req)
    \/ \E t \in DOMAIN tasks : UpdateSentState(t)
    \/ \E t \in DOMAIN tasks : \E b \in WorkerResults(script) : WorkerStoresResult(t, b)
    \/ \E t \in DOMAIN tasks : WorkerStoresFailure(t)
    \/ \E t \in DOMAIN tasks : TimerWins(t)
    \/ \E t \in DOMAIN tasks : ResultWins(t)
    \/ \E t \in DOMAIN tasks : ResultRaises(t)
    \/ \E t \in DOMAIN tasks : BothDone(t)
    \/ \E t \in DOMAIN tasks : Monitor(t)

SpecSent == Init /\ [][NextSent]_vars

\* The place of a state in unknown -> SENT -> STARTED -> SUCCESS | FAILURE | RETRY.
StateRank(state) ==
    CASE state = "PENDING" -> 0
      [] state = "SENT" -> 1
      [] state = "STARTED" -> 2
      [] state \in {"SUCCESS", "FAILURE", "RETRY"} -> 3

\* C34: the states stored for a task follow the order unknown, SENT,
\* STARTED, then SUCCESS, FAILURE or RETRY under every interleaving of the
\* after-publish handler with the worker: no step takes a task back, so SENT
\* never replaces a state the worker wrote.
C34_TaskStateNeverGoesBack ==
    [][\A t \in DOMAIN tasks :
          StateRank(tasks'[t].status) >= StateRank(tasks[t].status)]_vars

----------------------------------------------------------------------------
(* Sidecar and path that disagree on org or name                           *)

\* The version directories of the trees explored: org, name and version of
\* the path, and a sidecar that gives an org and a name, equal to those of
\* the path or not, or leaves them out; one directory has a sidecar that is
\* not JSON.
SidecarDirs ==
    {VersionDir(<<porg, pname, v>>, "py", GearCode,
                <<Sidecar([sidecar_json(CadScriptRecord(NoneV, "acme", "gear", v, NoneV,
                                                        "cadquery", GearCode, GearParams,
                                                        GearPresets))
                              EXCEPT !.org = sorg, !.name = sname, !.namespace = Absent])>>) :
        porg \in {"acme", "bolt"}, pname \in {"gear", "cog"}, v \in {"1.0.0", "2.0.0"},
        sorg \in {"acme", "bolt", Absent}, sname \in {"gear", "cog", Absent}}
    \cup {VersionDir(<<"acme", "gear", "1.0.0">>, "py", GearCode, <<Malformed>>)}

\* The library trees at startup: one version directory, or two with
\* different versions.
SidecarTrees ==
    {tree \in {{a, b} : a \in SidecarDirs, b \in SidecarDirs} :
        \A a, b \in tree : a.path[3] = b.path[3] => a = b}

InitSidecar ==
    /\ script \in {ScriptBox}
    /\ available_scriptengine_workers = {"cadquery", "archiyou"}
    /\ disk = [d \in CacheDirs |-> EmptyDir]
    /\ tasks = <<>>
    /\ batches = <<>>
    /\ last = Step("init", 0, NoResponse)
    /\ script_requests = <<>>
    /\ enumeration = <<>>
    /\ library \in {Library(tree, FALSE) : tree \in SidecarTrees}
    /\ publish_jobs = <<>>

\* The library is constructed on the tree and read again.
NextSidecar ==
    \/ LibraryConstruct
    \/ LibraryReload

SpecSidecar == InitSidecar /\ [][NextSidecar]_vars

\* The records loaded from version directory dir (the versions of a tree
\* differ, so the version tells the directory).
LoadedFrom(lib, dir) ==
    {lib.scripts[i] : i \in {j \in DOMAIN lib.scripts : lib.scripts[j].version = dir.path[3]}}

\* C35: when the sidecar gives an org and a name, the loaded record has the
\* org and name of the sidecar, lower-cased, and the namespace and id derived
\* from them, also when the directory path says otherwise.
C35_SidecarOrgAndNameWin ==
    last.op \in {"construct", "reload"} =>
        \A dir \in library.tree :
            LET config == dir.sidecars[1].config
            IN  (~dir.sidecars[1].malformed /\ config.org # Absent /\ config.name # Absent) =>
                    \A s \in LoadedFrom(library, dir) :
                        /\ s.org = lower(config.org)
                        /\ s.name = lower(config.name)
                        /\ s.namespace = lower(config.org) \o "/" \o lower(config.name)
                        /\ s.id = s.namespace \o "/" \o s.version

----------------------------------------------------------------------------
(* A result.json that cannot be parsed                                     *)

\* A fingerprint directory whose result.json holds no CadScriptResult: the
\* file is there (Path.is_file) and json.loads or CadScriptResult(**dict)
\* raises on its text, as after a server stopped inside the f.write of
\* checkin_script_result_in_cache.
UnparsableDir == [files |-> {RESULT_JSON}, json |-> {}]
Unparsable(dir) == RESULT_JSON \in dir.files /\ dir.json = {}

\* The state after construction over a cache of an earlier process in which
\* at most one result.json does not parse.
InitStored ==
    /\ script \in Scripts
    /\ available_scriptengine_workers \in WorkerPools(script)
    /\ \E damaged \in SUBSET ScriptCacheDirs(script) :
          /\ Cardinality(damaged) <= 1
          /\ disk = [d \in CacheDirs |-> IF d \in damaged THEN UnparsableDir ELSE EmptyDir]
    /\ tasks = <<>>
    /\ batches = <<>>
    /\ last = Step("init", 0, NoResponse)
    /\ script_requests = <<>>
    /\ enumeration = <<>>
    /\ library = NoLibrary
    /\ publish_jobs = <<>>

\* handle(req) with the read of result.json in it: is_cached calls
\* get_cached_script, which opens and parses the file outside any try; what
\* it raises leaves handle and the endpoint, and the server answers 500.
HandleStored(req) ==
    LET r == _req_to_script_request(script, req)
        dir == disk[_get_script_version_cached_model_dir(script, r)]
    IN  IF Unparsable(dir)
        THEN /\ last' = Step("cache_read_error", 0,
                             HTTPException(500, <<"Internal Server Error">>))
             /\ UNCHANGED <<script, available_scriptengine_workers, script_requests, enumeration, library, publish_jobs, disk, tasks, batches>>
        ELSE HandleSeq(req)

NextStored ==
    \/ \E req \in DefaultRequests(script) : HandleStored(req)
    \/ \E t \in DOMAIN tasks : TimerWins(t)
    \/ \E t \in DOMAIN tasks : ResultWins(t)
    \/ \E t \in DOMAIN tasks : ResultRaises(t)
    \/ \E t \in DOMAIN tasks : BothDone(t)
    \/ \E t \in DOMAIN tasks : Monitor(t)
    \/ \E t \in DOMAIN tasks : \E b \in WorkerResults(script) : WorkerReturns(t, b)
    \/ \E t \in DOMAIN tasks : WorkerRaises(t)

SpecStored == InitStored /\ [][NextStored]_vars

\* C36: a request whose fingerprint directory holds a result.json that cannot
\* be read or parsed is not failed: handle goes on to the in-flight check and
\* the enqueue path (a redirect to the computing job, a new task, or the
\* refusal for want of workers), as on a miss.
C36_UnreadableResultIsAMiss ==
    [][\A req \in DefaultRequests(script) :
          LET r == _req_to_script_request(script, req)
          IN  (/\ Unparsable(disk[_get_script_version_cached_model_dir(script, r)])
               /\ HandleStored(req))
              => last'.op \in {"in_flight", "enqueue", "no_workers"}]_vars

----------------------------------------------------------------------------
(* Marker and monitor                                                      *)

\* C37: whenever handle writes the in-flight marker for the task it enqueued
\* (the race ended without a result to return: the timer finished first, or
\* timer and result wait finished in the same step), a detached monitor for
\* that task has been started, which will commit the result.
C37_MarkerWrittenMeansMonitorStarted ==
    (/\ last.op \in {"timer_wins", "both_done"}
     /\ ComputeFile(TaskId(last.task)) \in disk[DirOf(last.task)].files)
    => tasks[last.task].watch = "monitor"

\* The marker of task t is in the fingerprint directory of its request.
MarkerPresent(t) ==
    /\ t \in DOMAIN tasks
    /\ ComputeFile(TaskId(t)) \in disk[DirOf(t)].files

\* C38: every in-flight marker is eventually removed once its worker task
\* has finished, in the running process: also when the task returned
\* success=false or raised, so that the result handling of the monitor
\* raises. Stated for the tasks a monitor watches.
C38_MarkerEventuallyRemoved ==
    \A t \in 1 .. MaxTasks :
        (/\ MarkerPresent(t)
         /\ tasks[t].watch = "monitor"
         /\ Ready(t))
        ~> ~MarkerPresent(t)

----------------------------------------------------------------------------
(* One marker per fingerprint directory                                    *)

ComputeFiles(dir) == {f \in dir.files : IsComputeFile(f)}

\* C39: in every state of a running server each fingerprint directory holds
\* at most one .compute marker, and a marker that is present is the only
\* entry of its directory, so that check_script_model_computing_job, which
\* looks at the first entry listed, finds it for every request of that
\* fingerprint.
C39_MarkerIsAloneInItsDirectory ==
    \A d \in DOMAIN disk :
        /\ Cardinality(ComputeFiles(disk[d])) <= 1
        /\ ComputeFiles(disk[d]) # {} =>
              /\ disk[d].files = ComputeFiles(disk[d])
              /\ \A req \in DefaultRequests(script) :
                    LET r == _req_to_script_request(script, req)
                    IN  _get_script_version_cached_model_dir(script, r) = d =>
                            check_script_model_computing_job(disk, script, r) =
                                {f[1] : f \in ComputeFiles(disk[d])}

\* The timer won for a request whose directory held the result files an
\* earlier task had committed: the files are gone, the marker is alone.
C39_MarkerReplacedCommittedFiles ==
    /\ last.op = "timer_wins"
    /\ disk[DirOf(last.task)].files = {ComputeFile(TaskId(last.task))}
    /\ \E t \in DOMAIN tasks :
          /\ t # last.task
          /\ DirOf(t) = DirOf(last.task)
          /\ tasks[t].commits > 0
          /\ checkin_files(script, ResultOf(t)) # {}

----------------------------------------------------------------------------
(* The fingerprint of the batch path and of the HTTP path                  *)

\* A number descriptor as the parameter model holds it after the script
\* config was parsed: start, end and step all ints or all floats.
ParamConfigNumberOfKind(kind, name, start, end, step) ==
    ParamConfigNumber(name, start, end, step) @@ [kind |-> kind]

AgreeParams(name) ==
    {ParamConfigNumberOfKind(kind, name, start, end, step) :
        kind \in {"int", "float"},
        start \in 1 .. MaxStart, end \in 1 .. MaxEnd, step \in 1 .. MaxStep}

\* Cachable scripts of one or two number parameters with start <= end.
AgreeScripts ==
    {CadScript("tests", "box", "1.0.0", "cadquery", params, NoEngineConfig) :
        params \in {ps \in {<<p>> : p \in AgreeParams("size")}
                          \cup {<<p, q>> : p \in AgreeParams("size"),
                                           q \in AgreeParams("depth")} :
                       \A i \in DOMAIN ps : ps[i].start <= ps[i].end}}

\* One request the generated endpoint of the script has validated, and the
\* generator of the batch precompute not started yet.
InitAgree ==
    /\ script \in AgreeScripts
    /\ available_scriptengine_workers = {"cadquery", "archiyou"}
    /\ disk = [d \in CacheDirs |-> EmptyDir]
    /\ tasks = <<>>
    /\ batches = <<>>
    /\ last = Step("init", 0, NoResponse)
    /\ enumeration = NewEnumeration
    /\ library = NoLibrary
    /\ publish_jobs = <<>>
    /\ script_requests \in
          [1 .. 1 -> {Studied(CadScriptRequest(script, req, 1)) :
                         req \in DefaultRequests(script)}]

\* The batch enumerator yields its tuples; handle hashes the HTTP request.
NextAgree ==
    \/ IterNext
    \/ \E i \in DOMAIN script_requests : HashCall(i)

SpecAgree == InitAgree /\ [][NextAgree]_vars

\* Two parameter dicts carry the same names with numerically equal values.
SameParamValues(a, b) ==
    /\ Len(a) = Len(b)
    /\ \A j \in DOMAIN a : a[j][1] = b[j][1] /\ a[j][2].n = b[j][2].n

\* C40: for every tuple the batch enumerator yields, the fingerprint of the
\* batch request (under which its result is committed) equals the
\* fingerprint handle computes for an HTTP request that carries the same
\* parameter values: the precomputed variant is found as a cache hit.
C40_BatchAndHttpFingerprintsAgree ==
    \A k \in DOMAIN enumeration.yielded, i \in DOMAIN script_requests :
        (/\ script_requests[i].calls > 0
         /\ SameParamValues(enumeration.yielded[k][2], script_requests[i].obj.request.params))
        => /\ enumeration.yielded[k][1] = script_requests[i].returned
           /\ _get_script_version_cached_model_dir(script,
                  _make_cache_compute_script_request(script, enumeration.yielded[k][2], 1))
              = _get_script_version_cached_model_dir(script, script_requests[i].obj.request)

====
